---- MODULE Spec2Model ----
(***************************************************************************)
(* Vote-integrity and access-control core of song-voter (app.py,           *)
(* database.py): the rate limiter, the vote handler with its block gate,   *)
(* voting window and duplicate guard, and the vote ledger.                 *)
(*                                                                         *)
(* Representation of Python / SQL values                                   *)
(*   None / NULL block id      0            (block ids start at 1)         *)
(*   None voter id             <<"none", 0>>                               *)
(*   md5(ip).hexdigest()       <<"md5", ip>>                               *)
(*   str(uuid.uuid4())         <<"uuid", n>>   n-th token handed out       *)
(*   thumbs_up                 "null" | "true" | "false"                   *)
(*   rating (JSON value)       [t |-> "none"|"int"|"float"|"str", x2]      *)
(*                             x2 is twice the numeric value               *)
(*   ISO timestamp strings     [k |-> "empty"|"bad"|"iso", t]              *)
(*   points in time            a number of ticks, TicksPerSec to the second *)
(*   password hash             <<"hash", pw>>, none: <<"nohash", "">>      *)
(*   statistics                avg_rating and rating_stdev in hundredths,  *)
(*                             thumbs_up_pct in tenths, agreement_score in *)
(*                             units; None is -1                           *)
(***************************************************************************)
EXTENDS Integers, Sequences, FiniteSets, TLC

VARIABLES
    now,            \* the clock read by time.time() / datetime.now(), in ticks
    settings,       \* settings table (the keys the vote handler reads)
    songs,          \* ids of the rows of table songs
    vote_blocks,    \* table vote_blocks: block id -> row, for the existing ids
    vote_block_songs, \* table vote_block_songs: the pairs <<block_id, song_id>>
    votes,          \* table votes, in id order
    session,        \* the Flask session of each browser
    next_uuid,      \* number of uuid4 tokens handed out so far
    vote_limiter,   \* the process-wide VoteRateLimiter object
    admitted,       \* history: every admitted limiter call still inside the window
    threads,        \* the request threads inside a handler
    admins,         \* table admins: id -> role
    next_admin_id,  \* the AUTOINCREMENT counter of admins
    logins,         \* the session['admin'] dicts that browsers hold
    password_reset_tokens,  \* table password_reset_tokens, in order of creation
    resp            \* the last request and its response

vars == <<now, settings, songs, vote_blocks, vote_block_songs, votes, session,
          next_uuid, vote_limiter, admitted, threads, admins, next_admin_id,
          logins, password_reset_tokens, resp>>

----------------------------------------------------------------------------
(* Bounds of the model *)

MaxTime == 4
MaxLedger == 2
MaxUuid == 2
MaxHistory == 3
ScaledMaxVotes == 2
ScaledWindowSecs == 2
ScaledMaxIps == 4
TicksPerSec == 2
MaxRows == 6
MaxAdmins == 2
MaxTokens == 3
ScaledTokenLife == 2

(* Addresses in play: one more than the limiter tracks, so that the
   tracker can overflow and evict. *)
NumIPs == ScaledMaxIps + 2

IPs == 1..NumIPs
Clients == {1, 2}
SongIds == {1, 2}
BlockIds == {1, 2}
NoBlock == 0
NoVoter == <<"none", 0>>
NoHash == <<"nohash", "">>
NoRating == [t |-> "none", x2 |-> 0]
EmptyTs == [k |-> "empty", t |-> 0]
BadTs == [k |-> "bad", t |-> 0]

Iso(t) == [k |-> "iso", t |-> t]
IntRating(n) == [t |-> "int", x2 |-> 2 * n]

Max(a, b) == IF a >= b THEN a ELSE b

----------------------------------------------------------------------------
(* VoteRateLimiter: self.votes is a dict, kept here as the sequence of its *)
(* items in insertion order, [ip, ts] with ts the list of timestamps.      *)

HasKey(d, ip) == \E i \in 1..Len(d) : d[i].ip = ip

GetKey(d, ip) == d[CHOOSE i \in 1..Len(d) : d[i].ip = ip].ts

DelKey(d, ip) == SelectSeq(d, LAMBDA e : e.ip # ip)

SetKey(d, ip, ts) ==
    IF HasKey(d, ip)
    THEN [i \in 1..Len(d) |-> IF d[i].ip = ip THEN [ip |-> ip, ts |-> ts] ELSE d[i]]
    ELSE Append(d, [ip |-> ip, ts |-> ts])

MinOf(ts) == CHOOSE x \in {ts[i] : i \in 1..Len(ts)} :
                 \A j \in 1..Len(ts) : x <= ts[j]

\* key=lambda ip: min(self.votes[ip]) if self.votes[ip] else 0
EvictKey(e) == IF e.ts # <<>> THEN MinOf(e.ts) ELSE 0

\* position of item i in sorted(self.votes.keys(), key=...); sorted is stable
SortRank(d, i) ==
    Cardinality({j \in 1..Len(d) :
        \/ EvictKey(d[j]) < EvictKey(d[i])
        \/ EvictKey(d[j]) = EvictKey(d[i]) /\ j < i})

\* the IPs that _evict_oldest(count) deletes: sorted_ips[:count]
EvictedIps(d, count) == {d[i].ip : i \in {j \in 1..Len(d) : SortRank(d, j) < count}}

_evict_oldest(d, count) ==
    IF d = <<>> THEN d
    ELSE LET gone == EvictedIps(d, count) IN SelectSeq(d, LAMBDA e : e.ip \notin gone)

\* an eviction that removes nothing
EvictCount_None(L) == 0

\* int(self.max_ips * 0.25)
EvictCount(L) == L.max_ips \div 4

\* self.votes after "Evict old entries if dict too large"
AfterEvict(L) ==
    IF Len(L.votes) > L.max_ips THEN _evict_oldest(L.votes, EvictCount(L)) ELSE L.votes

\* now - t < self.window_secs, the times being counted in ticks
InWindow(L, t, x) == t - x < L.window_secs * TicksPerSec

\* int(x) for x = ticks / TicksPerSec seconds: truncation towards zero
TruncSecs(ticks) ==
    IF ticks >= 0 THEN ticks \div TicksPerSec ELSE -((-ticks) \div TicksPerSec)

\* the retry-after without the floor at one second
RetryAfter_NoFloor(L, t, oldest) ==
    TruncSecs(L.window_secs * TicksPerSec - (t - oldest))

\* retry_after = self.window_secs - (now - self.votes[ip][0]); max(1, int(retry_after))
RetryAfter(L, t, oldest) ==
    Max(1, TruncSecs(L.window_secs * TicksPerSec - (t - oldest)))

\* self.votes after "Clean old timestamps for this IP"
AfterClean(L, ip, t) ==
    LET d == AfterEvict(L) IN
    IF HasKey(d, ip)
    THEN LET kept == SelectSeq(GetKey(d, ip), LAMBDA x : InWindow(L, t, x)) IN
         IF kept = <<>> THEN DelKey(d, ip) ELSE SetKey(d, ip, kept)
    ELSE d

\* the limit test with the comparison off by one
OverLimit_OffByOne(L, d, ip) == HasKey(d, ip) /\ Len(GetKey(d, ip)) > L.max_votes

\* if ip in self.votes and len(self.votes[ip]) >= self.max_votes
OverLimit(L, d, ip) == HasKey(d, ip) /\ Len(GetKey(d, ip)) >= L.max_votes

\* VoteRateLimiter.check(ip) at time t: the object afterwards and the result
check(L, ip, t) ==
    LET d == AfterClean(L, ip, t) IN
    IF OverLimit(L, d, ip)
    THEN [limiter |-> [L EXCEPT !.votes = d],
          allowed |-> FALSE,
          retry_after |-> RetryAfter(L, t, GetKey(d, ip)[1])]
    ELSE [limiter |-> [L EXCEPT !.votes =
                          SetKey(d, ip, (IF HasKey(d, ip) THEN GetKey(d, ip) ELSE <<>>) \o <<t>>)],
          allowed |-> TRUE,
          retry_after |-> 0]

\* the timestamps the limiter holds for ip
Stamps(L, ip) == IF HasKey(L.votes, ip) THEN GetKey(L.votes, ip) ELSE <<>>

\* VoteRateLimiter(max_votes, window_secs, max_ips)
NewLimiter(max_votes, window_secs, max_ips) ==
    [votes |-> <<>>, max_votes |-> max_votes, window_secs |-> window_secs,
     max_ips |-> max_ips]

----------------------------------------------------------------------------
(* The vote handler, POST /api/songs/<song_id>/vote *)

\* a request: the browser c it comes from, its headers and its JSON body.
\* cf, xff: the CF-Connecting-IP header and the first X-Forwarded-For entry,
\* 0 when the header is absent or empty.  empty: the body is {} (or missing).
Request(c, cf, xff, song_id, empty, thumbs_up, rating, block_id) ==
    [client |-> c, cf |-> cf, xff |-> xff, song_id |-> song_id, empty |-> empty,
     thumbs_up |-> thumbs_up, rating |-> rating, block_id |-> block_id]

\* request.remote_addr: browser c connects from address c
remote_addr(c) == c

\* CF-Connecting-IP or X-Forwarded-For.split(',')[0].strip() or remote_addr
ClientIp(req) ==
    IF req.cf # 0 THEN req.cf
    ELSE IF req.xff # 0 THEN req.xff
    ELSE remote_addr(req.client)

\* the rate limiting without the admin bypass
RateLimit_NoBypass(admin, req) == check(vote_limiter, ClientIp(req), now)

\* "Rate limiting (admin bypass)"
RateLimit(admin, req) ==
    IF ~admin
    THEN check(vote_limiter, ClientIp(req), now)
    ELSE [limiter |-> vote_limiter, allowed |-> TRUE, retry_after |-> 0]

get_song_by_id(song_id) == song_id \in songs

\* the test for a signal left out
MissingSignal_Omitted(thumbs_up, rating) == FALSE

\* thumbs_up is None and rating is None
MissingSignal(thumbs_up, rating) == thumbs_up = "null" /\ rating.t = "none"

\* the range test without its lower limit
RatingOutOfRange_UpperOnly(rating) == rating.t # "none" /\ rating.x2 > 20

\* rating is not None and (rating < 1 or rating > 10)
RatingOutOfRange(rating) == rating.t # "none" /\ (rating.x2 < 2 \/ rating.x2 > 20)

\* the checks on the JSON body; comparing a str with an int raises TypeError,
\* which the handler's except clause turns into a 500
PayloadGate(req) ==
    IF req.empty THEN "no_json"
    ELSE IF MissingSignal(req.thumbs_up, req.rating) THEN "missing_signal"
    ELSE IF req.rating.t = "str" THEN "error500"
    ELSE IF RatingOutOfRange(req.rating) THEN "bad_rating"
    ELSE "pass"

get_vote_block_by_id(block_id) == block_id \in DOMAIN vote_blocks

\* the expiry test with >= in place of >
is_block_expired_Inclusive(block, t) ==
    IF block.expires_at.k = "empty" THEN FALSE ELSE t >= block.expires_at.t

\* datetime.now() > expires_at, for a block with a parseable expires_at
is_block_expired(block, t) ==
    IF block.expires_at.k = "empty" THEN FALSE ELSE t > block.expires_at.t

\* "Handle block-specific voting"; datetime.fromisoformat raises ValueError
\* on an unparseable expires_at, which ends in the handler's except clause
BlockGate(req) ==
    IF req.block_id # NoBlock
    THEN IF ~get_vote_block_by_id(req.block_id) THEN "block_not_found"
         ELSE IF vote_blocks[req.block_id].expires_at.k = "bad" THEN "error500"
         ELSE IF is_block_expired(vote_blocks[req.block_id], now) THEN "expired"
         ELSE "pass"
    ELSE "pass"

\* the start test with <= in place of <
NotStarted_Inclusive(t) == settings.voting_start.k = "iso" /\ t <= settings.voting_start.t

\* if voting_start: try: if now < fromisoformat(voting_start) ... except ValueError: pass
NotStarted(t) == settings.voting_start.k = "iso" /\ t < settings.voting_start.t

\* if voting_end: try: if now > fromisoformat(voting_end) ... except ValueError: pass
Ended(t) == settings.voting_end.k = "iso" /\ t > settings.voting_end.t

\* the window test without the admin bypass
WindowApplies_NoBypass(admin, block_id) == block_id = NoBlock

\* if not session.get('admin') and not block_id
WindowApplies(admin, block_id) == ~admin /\ block_id = NoBlock

\* "Check voting time window (admin bypass, skip for block voting)"
WindowGate(admin, req) ==
    IF WindowApplies(admin, req.block_id)
    THEN IF NotStarted(now) THEN "not_started"
         ELSE IF Ended(now) THEN "ended"
         ELSE "pass"
    ELSE "pass"

\* the restriction with a blank block mode read as 'none'
VotingRestriction_BlankIsNone(block_id) ==
    IF block_id # NoBlock
    THEN IF vote_blocks[block_id].voting_restriction # ""
         THEN vote_blocks[block_id].voting_restriction
         ELSE "none"
    ELSE settings.voting_restriction

\* "Block-specific restriction takes precedence if set"
VotingRestriction(block_id) ==
    IF block_id # NoBlock /\ vote_blocks[block_id].voting_restriction # ""
    THEN vote_blocks[block_id].voting_restriction
    ELSE settings.voting_restriction

\* database.get_voter_id(request): the identity and the session afterwards
get_voter_id(c) ==
    LET restriction == settings.voting_restriction IN
    IF restriction = "ip"
    THEN [voter_id |-> <<"md5", remote_addr(c)>>, session |-> session[c]]
    ELSE IF restriction = "cookie"
    THEN IF session[c].voter_id = NoVoter
         THEN [voter_id |-> <<"uuid", next_uuid + 1>>,
               session |-> [session[c] EXCEPT !.voter_id = <<"uuid", next_uuid + 1>>]]
         ELSE [voter_id |-> session[c].voter_id, session |-> session[c]]
    ELSE [voter_id |-> NoVoter, session |-> session[c]]

\* "Only get voter_id if restriction is set"
ResolveVoter(c, block_id) ==
    IF VotingRestriction(block_id) # "none"
    THEN get_voter_id(c)
    ELSE [voter_id |-> NoVoter, session |-> session[c]]

\* has_voted with the voter left out of the WHERE clauses
has_voted_AnyVoter(song_id, voter_id, block_id) ==
    IF voter_id = NoVoter THEN FALSE
    ELSE IF block_id # NoBlock
    THEN \E i \in 1..Len(votes) :
            /\ votes[i].song_id = song_id
            /\ votes[i].block_id = block_id
    ELSE \E i \in 1..Len(votes) : votes[i].song_id = song_id

\* database.has_voted(song_id, voter_id, block_id)
has_voted(song_id, voter_id, block_id) ==
    IF voter_id = NoVoter THEN FALSE
    ELSE IF block_id # NoBlock
    THEN \E i \in 1..Len(votes) :
            /\ votes[i].song_id = song_id
            /\ votes[i].voter_id = voter_id
            /\ votes[i].block_id = block_id
    ELSE \E i \in 1..Len(votes) :
            /\ votes[i].song_id = song_id
            /\ votes[i].voter_id = voter_id

\* database.has_voted_in_block(voter_id, block_id)
has_voted_in_block(voter_id, block_id) ==
    IF voter_id = NoVoter \/ block_id = NoBlock THEN FALSE
    ELSE \E i \in 1..Len(votes) :
            /\ votes[i].voter_id = voter_id
            /\ votes[i].block_id = block_id

\* the duplicate checks without the one-time-use check
DuplicateGate_PerSongOnly(req, voter_id) ==
    IF voter_id # NoVoter /\ has_voted(req.song_id, voter_id, req.block_id)
    THEN "dup_song"
    ELSE "pass"

\* "Check one-time-use block restriction", then "Check per-song voting restriction"
DuplicateGate(req, voter_id) ==
    IF /\ req.block_id # NoBlock
       /\ vote_blocks[req.block_id].one_time_use = 1
       /\ voter_id # NoVoter
       /\ has_voted_in_block(voter_id, req.block_id)
    THEN "dup_block"
    ELSE IF voter_id # NoVoter /\ has_voted(req.song_id, voter_id, req.block_id)
    THEN "dup_song"
    ELSE "pass"

\* what column rating INTEGER stores: a float with an integral value becomes
\* an INTEGER, any other float stays a REAL
StoredRating(rating) ==
    IF rating.t = "float" /\ rating.x2 % 2 = 0 THEN [t |-> "int", x2 |-> rating.x2]
    ELSE rating

\* database.add_vote: the row INSERTed into votes
add_vote(song_id, thumbs_up, rating, voter_id, block_id) ==
    [song_id |-> song_id, thumbs_up |-> thumbs_up, rating |-> StoredRating(rating),
     voter_id |-> voter_id, block_id |-> block_id]

\* the handler run on request req in the current state: the response, and
\* what the run leaves in the limiter and in the session
VoteResult(req) ==
    LET c == req.client
        admin == session[c].admin
        lim == RateLimit(admin, req)
        early ==
            IF ~lim.allowed THEN "rate_limited"
            ELSE IF ~get_song_by_id(req.song_id) THEN "song_not_found"
            ELSE IF PayloadGate(req) # "pass" THEN PayloadGate(req)
            ELSE IF BlockGate(req) # "pass" THEN BlockGate(req)
            ELSE WindowGate(admin, req)
        who == IF early = "pass" /\ ~admin
               THEN ResolveVoter(c, req.block_id)
               ELSE [voter_id |-> NoVoter, session |-> session[c]]
        outcome ==
            IF early # "pass" THEN early
            ELSE IF ~admin /\ DuplicateGate(req, who.voter_id) # "pass"
            THEN DuplicateGate(req, who.voter_id)
            ELSE "ok"
    IN [outcome |-> outcome, limiter |-> lim.limiter, retry_after |-> lim.retry_after,
        session |-> who.session, voter_id |-> who.voter_id, admin |-> admin]

----------------------------------------------------------------------------
(* Aggregation: get_song_stats, get_all_results, get_block_results.  The    *)
(* SQL aggregates are taken over the joined vote rows rs; a rating r is      *)
(* held as x2 = 2r, so AVG(rating) = s2 / (2n) and the variance              *)
(* AVG(rating * rating) - AVG(rating) ** 2 = (n * q4 - s2 * s2) / (4 n n).   *)

Null == -1

RECURSIVE SeqSum(_)
SeqSum(xs) == IF xs = <<>> THEN 0 ELSE Head(xs) + SeqSum(Tail(xs))

\* round(num / den, 0) for num >= 0: a tie goes to the even neighbour
RoundHalfEven(num, den) ==
    LET q == num \div den
        r2 == 2 * (num % den)
    IN IF r2 < den THEN q
       ELSE IF r2 > den THEN q + 1
       ELSE IF q % 2 = 0 THEN q ELSE q + 1

\* COUNT, AVG and SUM(CASE ...) over the rows rs
Aggregate(rs) ==
    LET rated == SelectSeq(rs, LAMBDA v : v.rating.t # "none")
    IN [vote_count |-> Len(rs),
        n |-> Len(rated),
        s2 |-> SeqSum([i \in 1..Len(rated) |-> rated[i].rating.x2]),
        q4 |-> SeqSum([i \in 1..Len(rated) |-> rated[i].rating.x2 * rated[i].rating.x2]),
        thumbs_up_count |-> Len(SelectSeq(rs, LAMBDA v : v.thumbs_up = "true")),
        thumbs_down_count |-> Len(SelectSeq(rs, LAMBDA v : v.thumbs_up = "false"))]

\* round(avg_rating, 2) if avg_rating else None
AvgRating(a) == IF a.n > 0 /\ a.s2 > 0 THEN RoundHalfEven(a.s2 * 50, a.n) ELSE Null

\* round(thumbs_up_count / total_thumbs * 100, 1), None without thumbs votes
ThumbsUpPct(a) ==
    LET total_thumbs == a.thumbs_up_count + a.thumbs_down_count
    IN IF total_thumbs > 0 THEN RoundHalfEven(a.thumbs_up_count * 1000, total_thumbs)
       ELSE Null

\* the numerator and the denominator of the variance
VarNum(a) == a.n * a.q4 - a.s2 * a.s2
VarDen(a) == 4 * a.n * a.n

\* the dispersion test on the number of rated votes
\* avg_rating is not None and avg_rating_sq is not None and vote_count >= 2
HasDispersion(a) == a.n > 0 /\ a.vote_count >= 2

\* round(math.sqrt(variance), 2): the k with k - 1/2 <= 100 sqrt(v) < k + 1/2
RatingStdev(a) ==
    IF ~HasDispersion(a) THEN Null
    ELSE IF VarNum(a) > 0
    THEN CHOOSE k \in 0..1000 :
            /\ k > 0 => (2 * k - 1) * (2 * k - 1) * VarDen(a) <= 40000 * VarNum(a)
            /\ 40000 * VarNum(a) < (2 * k + 1) * (2 * k + 1) * VarDen(a)
    ELSE 0

\* round(max(0, 1 - stdev / 4.5) * 100, 0): 0 from stdev >= 4.5 on, else the
\* k with k - 1/2 <= 100 - stdev * 200 / 9 < k + 1/2
AgreementScore(a) ==
    IF ~HasDispersion(a) THEN Null
    ELSE IF VarNum(a) > 0
    THEN IF 4 * VarNum(a) >= 81 * VarDen(a) THEN 0
         ELSE CHOOSE k \in 0..100 :
                /\ 160000 * VarNum(a) <= 81 * (201 - 2 * k) * (201 - 2 * k) * VarDen(a)
                /\ k < 100 => 81 * (199 - 2 * k) * (199 - 2 * k) * VarDen(a)
                                 < 160000 * VarNum(a)
    ELSE 100

\* the flag with the tests on the rounded agreement score
IsControversial_Rounded(a) ==
    /\ HasDispersion(a)
    /\ VarNum(a) > 0
    /\ AgreementScore(a) < 50
    /\ a.thumbs_up_count > 0
    /\ 30 * (a.thumbs_up_count + a.thumbs_down_count) <= 100 * a.thumbs_up_count
    /\ 100 * a.thumbs_up_count <= 70 * (a.thumbs_up_count + a.thumbs_down_count)

\* agreement_score < 50 and thumbs_up_pct and 30 <= thumbs_up_pct <= 70, on
\* the values before rounding: agreement_score < 50 iff variance > 2.25 ** 2
IsControversial(a) ==
    /\ HasDispersion(a)
    /\ VarNum(a) > 0
    /\ 16 * VarNum(a) > 81 * VarDen(a)
    /\ a.thumbs_up_count > 0
    /\ 30 * (a.thumbs_up_count + a.thumbs_down_count) <= 100 * a.thumbs_up_count
    /\ 100 * a.thumbs_up_count <= 70 * (a.thumbs_up_count + a.thumbs_down_count)

\* get_song_stats with COUNT(rating) in place of COUNT(*)
get_song_stats_CountRated(song_id) ==
    LET a == Aggregate(SelectSeq(votes, LAMBDA v : v.song_id = song_id))
    IN IF a.vote_count > 0
       THEN [vote_count |-> a.n, avg_rating |-> AvgRating(a),
             thumbs_up_pct |-> ThumbsUpPct(a)]
       ELSE [vote_count |-> 0, avg_rating |-> Null, thumbs_up_pct |-> Null]

\* database.get_song_stats(song_id)
get_song_stats(song_id) ==
    LET a == Aggregate(SelectSeq(votes, LAMBDA v : v.song_id = song_id))
    IN IF a.vote_count > 0
       THEN [vote_count |-> a.vote_count, avg_rating |-> AvgRating(a),
             thumbs_up_pct |-> ThumbsUpPct(a)]
       ELSE [vote_count |-> 0, avg_rating |-> Null, thumbs_up_pct |-> Null]

\* one element of results: results.append({...})
ResultEntry(song_id, rs) ==
    LET a == Aggregate(rs)
    IN [id |-> song_id,
        vote_count |-> a.vote_count,
        avg_rating |-> AvgRating(a),
        thumbs_up_pct |-> ThumbsUpPct(a),
        rating_stdev |-> RatingStdev(a),
        agreement_score |-> AgreementScore(a),
        is_controversial |-> IsControversial(a)]

\* the ids in S in ascending order (the songs are named in the order of
\* their ids, so this is ORDER BY s.base_name, s.filename)
RECURSIVE OrderedIds(_)
OrderedIds(S) ==
    IF S = {} THEN <<>>
    ELSE LET m == CHOOSE x \in S : \A y \in S : x <= y
         IN <<m>> \o OrderedIds(S \ {m})

\* database.get_all_results(): FROM songs s LEFT JOIN votes v ON s.id = v.song_id
get_all_results ==
    LET ids == OrderedIds(songs)
    IN [i \in 1..Len(ids) |->
          ResultEntry(ids[i], SelectSeq(votes, LAMBDA v : v.song_id = ids[i]))]

\* get_block_results with the vote join not restricted to the block
get_block_results_AllVotes(block_id) ==
    LET ids == OrderedIds({song_id \in songs : <<block_id, song_id>> \in vote_block_songs})
    IN [i \in 1..Len(ids) |->
          ResultEntry(ids[i], SelectSeq(votes, LAMBDA v : v.song_id = ids[i]))]

\* database.get_block_results(block_id): FROM songs s JOIN vote_block_songs vbs
\* ON s.id = vbs.song_id LEFT JOIN votes v ON s.id = v.song_id AND
\* v.block_id = ? WHERE vbs.block_id = ?
get_block_results(block_id) ==
    LET ids == OrderedIds({song_id \in songs : <<block_id, song_id>> \in vote_block_songs})
    IN [i \in 1..Len(ids) |->
          ResultEntry(ids[i], SelectSeq(votes, LAMBDA v : /\ v.song_id = ids[i]
                                                           /\ v.block_id = block_id))]

----------------------------------------------------------------------------
(* History of the limiter's admissions: admitted[ip] lists the admitted   *)
(* calls of ip that are still inside the window, oldest first; live is     *)
(* FALSE once the limiter has evicted the ip after that call.              *)

NoReq == Request(0, 0, 0, 0, TRUE, "null", NoRating, NoBlock)

\* the request threads of the process, and a thread outside any handler;
\* req and voter_id are the locals of the vote handler
Threads == {1, 2}
IdleThread == [pc |-> "idle", ip |-> 0, now |-> 0, kept |-> <<>>,
               req |-> NoReq, voter_id |-> NoVoter, admin_id |-> 0]

\* the empty table admins
NoAdmins == [a \in {} |-> [username |-> 0, role |-> "editor"]]

\* result: the statistics a read request returns, <<>> for other requests
Response(op, req, outcome, retry_after, voter_id, admin, ip) ==
    [op |-> op, req |-> req, outcome |-> outcome, retry_after |-> retry_after,
     voter_id |-> voter_id, admin |-> admin, ip |-> ip, result |-> <<>>]

\* the history after a call check(ip) at time now with result r
Recorded(ip, r) ==
    LET gone == IF Len(vote_limiter.votes) > vote_limiter.max_ips
                THEN EvictedIps(vote_limiter.votes, EvictCount(vote_limiter))
                ELSE {}
        marked == [x \in IPs |->
                     IF x \in gone
                     THEN [i \in 1..Len(admitted[x]) |-> [admitted[x][i] EXCEPT !.live = FALSE]]
                     ELSE admitted[x]]
    IN IF r.allowed
       THEN [marked EXCEPT ![ip] = Append(@, [t |-> now, live |-> TRUE])]
       ELSE marked

----------------------------------------------------------------------------
(* Actions *)

\* POST /api/songs/<song_id>/vote
Vote(req) ==
    \E r \in {VoteResult(req)} :
    LET c == req.client
    IN /\ r.outcome = "ok" => Len(votes) < MaxLedger
       /\ r.session # session[c] => next_uuid < MaxUuid
       /\ ~r.admin /\ r.outcome # "rate_limited"
             => Len(admitted[ClientIp(req)]) < MaxHistory
       /\ votes' = IF r.outcome = "ok"
                   THEN Append(votes, add_vote(req.song_id, req.thumbs_up, req.rating,
                                               r.voter_id, req.block_id))
                   ELSE votes
       /\ vote_limiter' = r.limiter
       /\ admitted' = IF r.admin THEN admitted
                      ELSE Recorded(ClientIp(req), RateLimit(r.admin, req))
       /\ session' = [session EXCEPT ![c] = r.session]
       /\ next_uuid' = IF r.session # session[c] THEN next_uuid + 1 ELSE next_uuid
       /\ resp' = Response("vote", req, r.outcome, r.retry_after, r.voter_id, r.admin,
                           ClientIp(req))
       /\ UNCHANGED <<now, settings, songs, vote_blocks, threads, admins, next_admin_id, logins, password_reset_tokens, vote_block_songs>>

\* the vote handler run by request thread th, up to the call of add_vote:
\* the checks, which read the ledger through connections of their own
VoteChecks(th, req) ==
    \E r \in {VoteResult(req)} :
    LET c == req.client
    IN /\ threads[th].pc = "idle"
       /\ r.session # session[c] => next_uuid < MaxUuid
       /\ ~r.admin /\ r.outcome # "rate_limited"
             => Len(admitted[ClientIp(req)]) < MaxHistory
       /\ vote_limiter' = r.limiter
       /\ admitted' = IF r.admin THEN admitted
                      ELSE Recorded(ClientIp(req), RateLimit(r.admin, req))
       /\ session' = [session EXCEPT ![c] = r.session]
       /\ next_uuid' = IF r.session # session[c] THEN next_uuid + 1 ELSE next_uuid
       /\ IF r.outcome = "ok"
          THEN /\ threads' = [threads EXCEPT ![th] =
                                 [IdleThread EXCEPT !.pc = "add_vote", !.req = req,
                                                    !.voter_id = r.voter_id]]
               /\ resp' = resp
          ELSE /\ threads' = threads
               /\ resp' = Response("vote", req, r.outcome, r.retry_after, r.voter_id,
                                   r.admin, ClientIp(req))
       /\ UNCHANGED <<admins, next_admin_id, logins, password_reset_tokens, now, settings, songs, vote_blocks, vote_block_songs, votes>>

\* db.add_vote(song_id, thumbs_up, rating, voter_id, block_id) of thread th:
\* a plain INSERT, committed at once
VoteAddVote(th) ==
    LET me == threads[th] IN
    /\ me.pc = "add_vote"
    /\ Len(votes) < MaxLedger
    /\ votes' = Append(votes, add_vote(me.req.song_id, me.req.thumbs_up, me.req.rating,
                                       me.voter_id, me.req.block_id))
    /\ threads' = [threads EXCEPT ![th] = IdleThread]
    /\ resp' = Response("vote", me.req, "ok", 0, me.voter_id, session[me.req.client].admin,
                        ClientIp(me.req))
    /\ UNCHANGED <<admins, next_admin_id, logins, password_reset_tokens, now, settings, songs, vote_blocks, vote_block_songs, session,
                   next_uuid, vote_limiter, admitted>>

\* vote_limiter.check(ip), called on its own
LimiterCheck(ip) ==
    \E r \in {check(vote_limiter, ip, now)} :
    /\ r.allowed => Len(admitted[ip]) < MaxHistory
    /\ vote_limiter' = r.limiter
    /\ admitted' = Recorded(ip, r)
    /\ resp' = Response("check", NoReq, IF r.allowed THEN "ok" ELSE "rate_limited",
                        r.retry_after, NoVoter, FALSE, ip)
    /\ UNCHANGED <<now, settings, songs, vote_blocks, threads, admins, next_admin_id, logins, password_reset_tokens, vote_block_songs, votes, session, next_uuid>>

\* VoteRateLimiter.check(ip) run by request thread th, one statement at a
\* time; the class holds no lock, so the statements of two threads interleave.
\* now = time.time()
CheckBegin(th, ip) ==
    /\ threads[th].pc = "idle"
    /\ threads' = [threads EXCEPT ![th] = [IdleThread EXCEPT !.pc = "evict", !.ip = ip,
                                                              !.now = now]]
    /\ UNCHANGED <<admins, next_admin_id, logins, password_reset_tokens, now, settings, songs, vote_blocks, vote_block_songs, votes, session,
                   next_uuid, vote_limiter, admitted, resp>>

\* if len(self.votes) > self.max_ips: self._evict_oldest(...)
CheckEvict(th) ==
    /\ threads[th].pc = "evict"
    /\ vote_limiter' = [vote_limiter EXCEPT !.votes = AfterEvict(vote_limiter)]
    /\ threads' = [threads EXCEPT ![th].pc = "clean"]
    /\ UNCHANGED <<admins, next_admin_id, logins, password_reset_tokens, now, settings, songs, vote_blocks, vote_block_songs, votes, session,
                   next_uuid, admitted, resp>>

\* if ip in self.votes: evaluate [t for t in self.votes[ip] if now - t < window_secs]
CheckCleanRead(th) ==
    LET me == threads[th] IN
    /\ me.pc = "clean"
    /\ threads' =
          IF HasKey(vote_limiter.votes, me.ip)
          THEN [threads EXCEPT ![th].pc = "clean_write",
                               ![th].kept = SelectSeq(GetKey(vote_limiter.votes, me.ip),
                                                      LAMBDA x : InWindow(vote_limiter, me.now, x))]
          ELSE [threads EXCEPT ![th].pc = "test"]
    /\ UNCHANGED <<admins, next_admin_id, logins, password_reset_tokens, now, settings, songs, vote_blocks, vote_block_songs, votes, session,
                   next_uuid, vote_limiter, admitted, resp>>

\* self.votes[ip] = <the list>; if not self.votes[ip]: del self.votes[ip]
CheckCleanWrite(th) ==
    LET me == threads[th] IN
    /\ me.pc = "clean_write"
    /\ vote_limiter' = [vote_limiter EXCEPT !.votes =
                           IF me.kept = <<>> THEN DelKey(@, me.ip)
                           ELSE SetKey(@, me.ip, me.kept)]
    /\ threads' = [threads EXCEPT ![th].pc = "test", ![th].kept = <<>>]
    /\ UNCHANGED <<admins, next_admin_id, logins, password_reset_tokens, now, settings, songs, vote_blocks, vote_block_songs, votes, session,
                   next_uuid, admitted, resp>>

\* if ip in self.votes and len(self.votes[ip]) >= self.max_votes: return False, ...
CheckTest(th) ==
    LET me == threads[th] IN
    /\ me.pc = "test"
    /\ IF OverLimit(vote_limiter, vote_limiter.votes, me.ip)
       THEN /\ threads' = [threads EXCEPT ![th] = IdleThread]
            /\ resp' = Response("check", NoReq, "rate_limited",
                                RetryAfter(vote_limiter, me.now,
                                           GetKey(vote_limiter.votes, me.ip)[1]),
                                NoVoter, FALSE, me.ip)
       ELSE /\ threads' = [threads EXCEPT ![th].pc = "record"]
            /\ resp' = resp
    /\ UNCHANGED <<admins, next_admin_id, logins, password_reset_tokens, now, settings, songs, vote_blocks, vote_block_songs, votes, session,
                   next_uuid, vote_limiter, admitted>>

\* self.votes.setdefault(ip, []).append(now); return True, 0
CheckRecord(th) ==
    LET me == threads[th] IN
    /\ me.pc = "record"
    /\ Len(admitted[me.ip]) < MaxHistory
    /\ vote_limiter' = [vote_limiter EXCEPT !.votes =
                           SetKey(@, me.ip, Stamps(vote_limiter, me.ip) \o <<me.now>>)]
    /\ admitted' = [admitted EXCEPT ![me.ip] = Append(@, [t |-> me.now, live |-> TRUE])]
    /\ threads' = [threads EXCEPT ![th] = IdleThread]
    /\ resp' = Response("check", NoReq, "ok", 0, NoVoter, FALSE, me.ip)
    /\ UNCHANGED <<admins, next_admin_id, logins, password_reset_tokens, now, settings, songs, vote_blocks, vote_block_songs, votes, session,
                   next_uuid>>

\* database.verify_block_password(block, password)
verify_block_password(block, password) ==
    IF block.password_hash = NoHash THEN TRUE
    ELSE block.password_hash = <<"hash", password>>

\* POST /vote/block/<slug>/auth: the password gate of block b
VoteBlockAuth(c, b, password) ==
    /\ b \in DOMAIN vote_blocks
    /\ session' =
          IF /\ vote_blocks[b].password_hash # NoHash
             /\ vote_blocks[b].expires_at.k # "bad"
             /\ ~is_block_expired(vote_blocks[b], now)
             /\ verify_block_password(vote_blocks[b], password)
          THEN [session EXCEPT ![c].block_access = @ \cup {b}]
          ELSE session
    /\ resp' = Response("block_auth", [NoReq EXCEPT !.client = c, !.block_id = b],
                        IF session' # session \/ b \in session[c].block_access
                        THEN "ok" ELSE "denied",
                        0, NoVoter, session[c].admin, 0)
    /\ UNCHANGED <<now, settings, songs, vote_blocks, threads, admins, next_admin_id, logins, password_reset_tokens, vote_block_songs, votes, next_uuid, vote_limiter,
                   admitted>>

\* a blank session
NewSession == [admin |-> FALSE, block_access |-> {}, voter_id |-> NoVoter]

\* POST /admin/login with valid credentials: session.clear(), session['admin'] = admin
AdminLogin(c) ==
    /\ session' = [session EXCEPT ![c] = [NewSession EXCEPT !.admin = TRUE]]
    /\ resp' = Response("login", [NoReq EXCEPT !.client = c], "ok", 0, NoVoter, TRUE, 0)
    /\ UNCHANGED <<now, settings, songs, vote_blocks, threads, admins, next_admin_id, logins, password_reset_tokens, vote_block_songs, votes, next_uuid, vote_limiter,
                   admitted>>

\* GET /admin/logout: session.pop('admin', None)
AdminLogout(c) ==
    /\ session' = [session EXCEPT ![c].admin = FALSE]
    /\ resp' = Response("logout", [NoReq EXCEPT !.client = c], "ok", 0, NoVoter, FALSE, 0)
    /\ UNCHANGED <<now, settings, songs, vote_blocks, threads, admins, next_admin_id, logins, password_reset_tokens, vote_block_songs, votes, next_uuid, vote_limiter,
                   admitted>>

\* sqlite3.connect leaves the enforcement of foreign keys off, and get_db
\* issues no PRAGMA foreign_keys = ON: the ON DELETE clauses of the schema
\* do not act
foreign_keys == FALSE

\* database.delete_vote_block(block_id): the tables afterwards
delete_vote_block(block_id) ==
    [vote_blocks |-> [b \in DOMAIN vote_blocks \ {block_id} |-> vote_blocks[b]],
     vote_block_songs |->
        IF foreign_keys THEN {p \in vote_block_songs : p[1] # block_id}
        ELSE vote_block_songs,
     votes |->
        IF foreign_keys
        THEN [i \in 1..Len(votes) |->
                IF votes[i].block_id = block_id
                THEN [votes[i] EXCEPT !.block_id = NoBlock] ELSE votes[i]]
        ELSE votes,
     deleted |-> block_id \in DOMAIN vote_blocks]

\* DELETE /admin/blocks/<block_id>, behind admin_required
AdminDeleteBlock(c, b) ==
    \E r \in {delete_vote_block(b)} :
    LET admin == session[c].admin
    IN /\ vote_blocks' = IF admin THEN r.vote_blocks ELSE vote_blocks
       /\ vote_block_songs' = IF admin THEN r.vote_block_songs ELSE vote_block_songs
       /\ votes' = IF admin THEN r.votes ELSE votes
       /\ resp' = Response("delete_block", [NoReq EXCEPT !.client = c, !.block_id = b],
                           IF ~admin THEN "login_required"
                           ELSE IF r.deleted THEN "ok" ELSE "block_not_found",
                           0, NoVoter, admin, 0)
       /\ UNCHANGED <<now, settings, threads, admins, next_admin_id, logins, password_reset_tokens, songs, session, next_uuid, vote_limiter, admitted>>

\* database.delete_song(song_id): "Delete votes first", then the song
delete_song(song_id) ==
    IF song_id \in songs
    THEN [songs |-> songs \ {song_id},
          votes |-> SelectSeq(votes, LAMBDA v : v.song_id # song_id),
          vote_block_songs |->
             IF foreign_keys THEN {p \in vote_block_songs : p[2] # song_id}
             ELSE vote_block_songs,
          deleted |-> TRUE]
    ELSE [songs |-> songs, votes |-> votes, vote_block_songs |-> vote_block_songs,
          deleted |-> FALSE]

\* DELETE /admin/songs/<song_id>, behind admin_required; the administrator
\* has the role owner, whom can_delete_song lets delete any song
AdminDeleteSong(c, song_id) ==
    \E r \in {delete_song(song_id)} :
    LET admin == session[c].admin
    IN /\ songs' = IF admin THEN r.songs ELSE songs
       /\ votes' = IF admin THEN r.votes ELSE votes
       /\ vote_block_songs' = IF admin THEN r.vote_block_songs ELSE vote_block_songs
       /\ resp' = Response("delete_song", [NoReq EXCEPT !.client = c, !.song_id = song_id],
                           IF ~admin THEN "login_required"
                           ELSE IF r.deleted THEN "ok" ELSE "song_not_found",
                           0, NoVoter, admin, 0)
       /\ UNCHANGED <<now, settings, vote_blocks, threads, admins, next_admin_id, logins, password_reset_tokens, session, next_uuid, vote_limiter,
                      admitted>>

\* clear_all_data without the DELETE FROM songs
clear_all_data_VotesOnly ==
    [songs |-> songs, votes |-> <<>>, vote_block_songs |-> vote_block_songs]

\* database.clear_all_data(): DELETE FROM votes, DELETE FROM songs
clear_all_data ==
    [songs |-> {}, votes |-> <<>>,
     vote_block_songs |-> IF foreign_keys THEN {} ELSE vote_block_songs]

\* POST /api/clear; the route carries no admin_required, and no site
\* password is set
ClearData(c) ==
    /\ songs' = clear_all_data.songs
    /\ votes' = clear_all_data.votes
    /\ vote_block_songs' = clear_all_data.vote_block_songs
    /\ resp' = Response("clear", [NoReq EXCEPT !.client = c], "ok", 0, NoVoter,
                        session[c].admin, 0)
    /\ UNCHANGED <<now, settings, vote_blocks, threads, admins, next_admin_id, logins, password_reset_tokens, session, next_uuid, vote_limiter, admitted>>

\* a call of database.get_song_stats(song_id)
GetSongStats(song_id) ==
    /\ resp' = [Response("stats", [NoReq EXCEPT !.song_id = song_id], "ok", 0, NoVoter,
                          FALSE, 0) EXCEPT !.result = <<get_song_stats(song_id)>>]
    /\ UNCHANGED <<now, settings, songs, vote_blocks, threads, admins, next_admin_id, logins, password_reset_tokens, vote_block_songs, votes, session,
                   next_uuid, vote_limiter, admitted>>

\* GET /api/results with results_visibility at its default 'public'
GetResults(c) ==
    /\ resp' = [Response("results", [NoReq EXCEPT !.client = c], "ok", 0, NoVoter,
                          session[c].admin, 0) EXCEPT !.result = get_all_results]
    /\ UNCHANGED <<now, settings, songs, vote_blocks, threads, admins, next_admin_id, logins, password_reset_tokens, vote_block_songs, votes, session,
                   next_uuid, vote_limiter, admitted>>

\* GET /admin/blocks/<block_id>/results, behind admin_required
AdminBlockResults(c, b) ==
    LET admin == session[c].admin
        outcome == IF ~admin THEN "login_required"
                   ELSE IF ~get_vote_block_by_id(b) THEN "block_not_found"
                   ELSE "ok"
    IN /\ resp' = [Response("block_results", [NoReq EXCEPT !.client = c, !.block_id = b],
                             outcome, 0, NoVoter, admin, 0)
                      EXCEPT !.result = IF outcome = "ok" THEN get_block_results(b)
                                        ELSE <<>>]
       /\ UNCHANGED <<now, settings, songs, vote_blocks, threads, admins, next_admin_id, logins, password_reset_tokens, vote_block_songs, votes, session,
                      next_uuid, vote_limiter, admitted>>

----------------------------------------------------------------------------
(* Admin users.  A row of admins holds a username and a role; EnvUser is   *)
(* the username in ADMIN_USER, every other admin is named after its id.    *)

Roles == {"owner", "admin", "editor"}
EnvUser == 0
AdminIds == 1..MaxAdmins

\* database.create_admin(username, password, role): the table afterwards
create_admin(username, role) ==
    [a \in DOMAIN admins \cup {next_admin_id} |->
        IF a = next_admin_id
        THEN [username |-> username, role |-> IF role \in Roles THEN role ELSE "editor"]
        ELSE admins[a]]

\* database.admin_count()
admin_count == Cardinality(DOMAIN admins)

\* POST /admin/setup: db.create_admin(username, password) while no admin exists
AdminSetup ==
    /\ admin_count = 0
    /\ next_admin_id <= MaxAdmins
    /\ admins' = create_admin(next_admin_id, "editor")
    /\ next_admin_id' = next_admin_id + 1
    /\ resp' = Response("setup", NoReq, "ok", 0, NoVoter, FALSE, 0)
    /\ UNCHANGED <<threads, logins>>
    /\ UNCHANGED <<now, settings, songs, vote_blocks, vote_block_songs, votes, session,
                   next_uuid, vote_limiter, admitted, password_reset_tokens>>

\* init_db at a start of the process with ADMIN_USER and ADMIN_PASS set:
\* INSERT OR IGNORE INTO admins ... 'owner'
InitDbEnvAdmin ==
    /\ \A a \in DOMAIN admins : admins[a].username # EnvUser
    /\ next_admin_id <= MaxAdmins
    /\ admins' = create_admin(EnvUser, "owner")
    /\ next_admin_id' = next_admin_id + 1
    /\ resp' = Response("init_db", NoReq, "ok", 0, NoVoter, FALSE, 0)
    /\ UNCHANGED <<threads, logins>>
    /\ UNCHANGED <<now, settings, songs, vote_blocks, vote_block_songs, votes, session,
                   next_uuid, vote_limiter, admitted, password_reset_tokens>>

\* POST /admin/login as admin a: session['admin'] = verify_admin(...), the
\* dict {'id', 'username', 'role'} as the table holds it at that moment;
\* each admin uses one browser, whose session the login replaces
AdminSignIn(a) ==
    /\ a \in DOMAIN admins
    /\ logins' = {s \in logins : s.id # a} \cup {[id |-> a, role |-> admins[a].role]}
    /\ resp' = Response("login", NoReq, "ok", 0, NoVoter, TRUE, 0)
    /\ UNCHANGED <<threads, admins, next_admin_id>>
    /\ UNCHANGED <<now, settings, songs, vote_blocks, vote_block_songs, votes, session,
                   next_uuid, vote_limiter, admitted, password_reset_tokens>>

\* admin_or_owner_required on the session dict s
admin_or_owner_required(s) == s.role \in {"admin", "owner"}

\* owner_required on the session dict s
owner_required(s) == s.role = "owner"

\* POST /admin/admins from the session s, with a fresh username
AdminCreateAdmin(s, role) ==
    LET outcome == IF ~admin_or_owner_required(s) THEN "forbidden"
                   ELSE IF role = "owner" /\ s.role # "owner" THEN "only_owners"
                   ELSE "ok"
    IN /\ s \in logins
       /\ outcome = "ok" => next_admin_id <= MaxAdmins
       /\ admins' = IF outcome = "ok" THEN create_admin(next_admin_id, role) ELSE admins
       /\ next_admin_id' = IF outcome = "ok" THEN next_admin_id + 1 ELSE next_admin_id
       /\ resp' = Response("create_admin", NoReq, outcome, 0, NoVoter, TRUE, 0)
       /\ UNCHANGED <<threads, logins>>
       /\ UNCHANGED <<now, settings, songs, vote_blocks, vote_block_songs, votes, session,
                   next_uuid, vote_limiter, admitted, password_reset_tokens>>

\* database.update_admin_role(admin_id, new_role, requesting_admin_id)
update_admin_role(admin_id, new_role, requesting_admin_id) ==
    IF new_role \notin Roles THEN "invalid_role"
    ELSE IF \/ requesting_admin_id \notin DOMAIN admins
            \/ admins[requesting_admin_id].role # "owner" THEN "only_owners"
    ELSE IF admin_id \notin DOMAIN admins THEN "not_found"
    ELSE IF admins[admin_id].role = "owner" /\ admin_id < requesting_admin_id
    THEN "seniority"
    ELSE IF admin_id = requesting_admin_id /\ new_role # "owner" THEN "demote_self"
    ELSE "ok"

\* PUT /admin/admins/<admin_id>/role from the session s
AdminUpdateRole(s, admin_id, new_role) ==
    LET outcome == IF ~owner_required(s) THEN "forbidden"
                   ELSE update_admin_role(admin_id, new_role, s.id)
    IN /\ s \in logins
       /\ admins' = IF outcome = "ok"
                    THEN [admins EXCEPT ![admin_id].role = new_role] ELSE admins
       /\ resp' = Response("update_role", NoReq, outcome, 0, NoVoter, TRUE, 0)
       /\ UNCHANGED <<threads, next_admin_id, logins>>
       /\ UNCHANGED <<now, settings, songs, vote_blocks, vote_block_songs, votes, session,
                   next_uuid, vote_limiter, admitted, password_reset_tokens>>

\* SELECT COUNT(*) FROM admins ... <= 1
LastAdmin == admin_count <= 1

\* database.delete_admin(admin_id, requesting_admin_id) up to its DELETE: the
\* SELECTs, which run outside a transaction
delete_admin_checks(admin_id, requesting_admin_id) ==
    IF admin_id \notin DOMAIN admins THEN "not_found"
    ELSE IF admin_id = requesting_admin_id THEN "delete_self"
    ELSE IF admins[admin_id].role = "owner" /\ admin_id < requesting_admin_id
    THEN "seniority"
    ELSE IF LastAdmin THEN "last_admin"
    ELSE "ok"

\* DELETE /admin/admins/<admin_id> from the session s, served by thread th,
\* up to the DELETE statement
AdminDeleteAdmin(th, s, admin_id) ==
    LET outcome == IF ~admin_or_owner_required(s) THEN "forbidden"
                   ELSE delete_admin_checks(admin_id, s.id)
    IN /\ s \in logins
       /\ threads[th].pc = "idle"
       /\ IF outcome = "ok"
          THEN /\ threads' = [threads EXCEPT ![th] =
                                 [IdleThread EXCEPT !.pc = "delete_admin",
                                                    !.admin_id = admin_id]]
               /\ resp' = resp
          ELSE /\ threads' = threads
               /\ resp' = Response("delete_admin", NoReq, outcome, 0, NoVoter, TRUE, 0)
       /\ UNCHANGED <<admins, next_admin_id, logins>>
       /\ UNCHANGED <<now, settings, songs, vote_blocks, vote_block_songs, votes, session,
                   next_uuid, vote_limiter, admitted, password_reset_tokens>>

\* DELETE FROM admins WHERE id = ?; commit, by thread th
DeleteAdminRow(th) ==
    LET me == threads[th] IN
    /\ me.pc = "delete_admin"
    /\ admins' = [a \in DOMAIN admins \ {me.admin_id} |-> admins[a]]
    /\ threads' = [threads EXCEPT ![th] = IdleThread]
    /\ resp' = Response("delete_admin", NoReq, "ok", 0, NoVoter, TRUE, 0)
    /\ UNCHANGED <<next_admin_id, logins>>
    /\ UNCHANGED <<now, settings, songs, vote_blocks, vote_block_songs, votes, session,
                   next_uuid, vote_limiter, admitted, password_reset_tokens>>

----------------------------------------------------------------------------
(* Password reset tokens.  A token is the index of its row in               *)
(* password_reset_tokens: secrets.token_urlsafe(32) gives every row a       *)
(* token of its own.  The hour a token lives is ScaledTokenLife ticks.      *)

\* database.get_first_admin / is_primary_owner(admin_id)
is_primary_owner(admin_id) ==
    /\ DOMAIN admins # {}
    /\ \A a \in DOMAIN admins : admin_id <= a
    /\ admin_id \in DOMAIN admins
    /\ admins[admin_id].role = "owner"

\* create_password_reset_token without the UPDATE of the unused tokens
InvalidateUnused_Skipped(rows, admin_id) == rows

\* UPDATE password_reset_tokens SET used = 1 WHERE admin_id = ? AND used = 0
InvalidateUnused(rows, admin_id) ==
    [i \in 1..Len(rows) |->
        IF rows[i].admin_id = admin_id /\ rows[i].used = 0
        THEN [rows[i] EXCEPT !.used = 1] ELSE rows[i]]

\* database.create_password_reset_token(admin_id) at time t: the table afterwards
create_password_reset_token(admin_id, t) ==
    Append(InvalidateUnused(password_reset_tokens, admin_id),
           [admin_id |-> admin_id, expires_at |-> t + ScaledTokenLife, used |-> 0])

\* database.validate_reset_token(token) at time t: whether an admin is returned
validate_reset_token(token, t) ==
    /\ token \in 1..Len(password_reset_tokens)
    /\ password_reset_tokens[token].admin_id \in DOMAIN admins
    /\ password_reset_tokens[token].used = 0
    /\ ~(t > password_reset_tokens[token].expires_at)

\* database.invalidate_reset_token(token): the table afterwards
invalidate_reset_token(token) ==
    [i \in 1..Len(password_reset_tokens) |->
        IF i = token THEN [password_reset_tokens[i] EXCEPT !.used = 1]
        ELSE password_reset_tokens[i]]

\* POST /admin/forgot-password with the email of admin a, SMTP configured
AdminForgotPassword(a) ==
    LET outcome == IF a \notin DOMAIN admins THEN "no_account"
                   ELSE IF is_primary_owner(a) THEN "primary_owner"
                   ELSE "ok"
    IN /\ outcome = "ok" => Len(password_reset_tokens) < MaxTokens
       /\ password_reset_tokens' =
             IF outcome = "ok" THEN create_password_reset_token(a, now)
             ELSE password_reset_tokens
       /\ resp' = Response("forgot_password", NoReq, outcome, 0, NoVoter, FALSE, 0)
       /\ UNCHANGED now
       /\ UNCHANGED <<settings, songs, vote_blocks, vote_block_songs, votes, session,
                   next_uuid, vote_limiter, admitted, threads, admins, next_admin_id,
                   logins>>

\* what /admin/reset-password/<token> does before it looks at the method
ResetGate(token) ==
    IF ~validate_reset_token(token, now) THEN "invalid"
    ELSE IF is_primary_owner(password_reset_tokens[token].admin_id) THEN "primary_owner"
    ELSE "pass"

\* GET /admin/reset-password/<token>, or a POST whose password is refused
AdminResetPasswordForm(token) ==
    /\ resp' = [Response("reset_form", NoReq,
                         IF ResetGate(token) = "pass" THEN "form" ELSE ResetGate(token),
                         0, NoVoter, FALSE, 0)
                  EXCEPT !.result = <<token>>]
    /\ UNCHANGED <<now, password_reset_tokens>>
    /\ UNCHANGED <<settings, songs, vote_blocks, vote_block_songs, votes, session,
                   next_uuid, vote_limiter, admitted, threads, admins, next_admin_id,
                   logins>>

\* POST /admin/reset-password/<token> with an acceptable password:
\* update_admin_password, then invalidate_reset_token
AdminResetPassword(token) ==
    /\ password_reset_tokens' =
          IF ResetGate(token) = "pass" THEN invalidate_reset_token(token)
          ELSE password_reset_tokens
    /\ resp' = [Response("reset", NoReq,
                         IF ResetGate(token) = "pass" THEN "ok" ELSE ResetGate(token),
                         0, NoVoter, FALSE, 0)
                  EXCEPT !.result = <<token>>]
    /\ UNCHANGED now
    /\ UNCHANGED <<settings, songs, vote_blocks, vote_block_songs, votes, session,
                   next_uuid, vote_limiter, admitted, threads, admins, next_admin_id,
                   logins>>

\* the clock advances by one tick
Tick ==
    /\ now < MaxTime
    /\ now' = now + 1
    /\ admitted' = [x \in IPs |->
                      SelectSeq(admitted[x],
                                LAMBDA a : (now + 1) - a.t
                                               < vote_limiter.window_secs * TicksPerSec)]
    /\ resp' = Response("tick", NoReq, "ok", 0, NoVoter, FALSE, 0)
    /\ UNCHANGED <<settings, songs, vote_blocks, threads, admins, next_admin_id, logins, password_reset_tokens, vote_block_songs, votes, session, next_uuid, vote_limiter>>

----------------------------------------------------------------------------
(* Initial states *)

\* the defaults init_db writes: voting_restriction 'none', no voting window
DefaultSettings ==
    [voting_restriction |-> "none", voting_start |-> EmptyTs, voting_end |-> EmptyTs]

\* a row of vote_blocks as create_vote_block writes it
BlockRow(password_hash, expires_at, one_time_use, voting_restriction) ==
    [password_hash |-> password_hash, expires_at |-> expires_at,
     one_time_use |-> one_time_use, voting_restriction |-> voting_restriction]

NoBlocks == [b \in {} |-> BlockRow(NoHash, EmptyTs, 0, "")]

\* the state after init_db and the construction of vote_limiter, with the
\* given settings, vote blocks, block songs and votes in the database
InitFull(sett, blocks, block_songs, ledger) ==
    /\ now = 0
    /\ settings = sett
    /\ songs = SongIds
    /\ vote_blocks = blocks
    /\ vote_block_songs = block_songs
    /\ votes = ledger
    /\ session = [c \in Clients |-> NewSession]
    /\ next_uuid = 0
    /\ vote_limiter = NewLimiter(ScaledMaxVotes, ScaledWindowSecs, ScaledMaxIps)
    /\ admitted = [x \in IPs |-> <<>>]
    /\ threads = [th \in Threads |-> IdleThread]
    /\ admins = NoAdmins
    /\ next_admin_id = 1
    /\ logins = {}
    /\ password_reset_tokens = <<>>
    /\ resp = Response("init", NoReq, "ok", 0, NoVoter, FALSE, 0)

\* an empty ledger, every block created with all the songs
InitWith(sett, blocks) ==
    InitFull(sett, blocks, {<<b, song_id>> : b \in DOMAIN blocks, song_id \in SongIds},
             <<>>)

----------------------------------------------------------------------------
(* The rate limiter on its own.  The address 1 is a voter that calls check *)
(* at will; the addresses from 2 on belong to a scanner that walks through  *)
(* them in order, using an address only while the limiter does not track it *)
(* (the abuse the cap on tracked IPs is there for).                         *)

VoterIPs == {1}

InitLimiter == InitWith(DefaultSettings, NoBlocks)

\* the scanner's next call to vote_limiter.check
\* the addresses that scan
ScanIPs == 1..(ScaledMaxIps + 1)

Scan(ip) ==
    /\ ip \notin VoterIPs
    /\ ~HasKey(vote_limiter.votes, ip)
    /\ HasKey(vote_limiter.votes, ip - 1)
    /\ LimiterCheck(ip)

NextLimiter ==
    \/ \E ip \in VoterIPs : LimiterCheck(ip)
    \/ \E ip \in ScanIPs : Scan(ip)
    \/ Tick

SpecLimiter == InitLimiter /\ [][NextLimiter]_vars

----------------------------------------------------------------------------
(* The size cap of the limiter: two addresses more than max_ips call, each *)
(* one while the limiter does not track it, the first of them also while   *)
(* the limiter tracks at most two addresses.                               *)

Probe(ip) ==
    /\ \/ ~HasKey(vote_limiter.votes, ip)
       \/ ip \in VoterIPs /\ Len(vote_limiter.votes) <= 2
    /\ ip = 1 \/ HasKey(vote_limiter.votes, ip - 1)
    /\ LimiterCheck(ip)

NextEvict ==
    \/ \E ip \in IPs : Probe(ip)
    \/ Tick

SpecEvict == InitLimiter /\ [][NextEvict]_vars

----------------------------------------------------------------------------
(* The rate limiter under concurrent requests: the request threads of one  *)
(* process call check for the address 1 at one instant.                     *)

NextThreads ==
    \E th \in Threads :
        \/ CheckBegin(th, 1)
        \/ CheckEvict(th)
        \/ CheckCleanRead(th)
        \/ CheckCleanWrite(th)
        \/ CheckTest(th)
        \/ CheckRecord(th)

SpecThreads == InitLimiter /\ [][NextThreads]_vars

----------------------------------------------------------------------------
(* The duplicate guard: two browsers vote on two songs, inside and outside *)
(* block 1, under every global restriction mode and every restriction mode *)
(* and one_time_use flag of block 1.  The requests arrive at one instant.  *)

Restrictions == {"none", "ip", "cookie"}

GuardBlocks(one_time_use, voting_restriction) ==
    [b \in BlockIds |->
        IF b = 1 THEN BlockRow(NoHash, EmptyTs, one_time_use, voting_restriction)
        ELSE BlockRow(NoHash, EmptyTs, 0, "")]

Init ==
    \E mode \in Restrictions, otu \in {0, 1}, vr \in Restrictions \cup {""} :
        InitWith([DefaultSettings EXCEPT !.voting_restriction = mode],
                 GuardBlocks(otu, vr))

GuardRequests ==
    {Request(c, 0, 0, song_id, FALSE, "true", NoRating, b) :
        c \in Clients, song_id \in SongIds, b \in {NoBlock, 1}}

Next == \E req \in GuardRequests : Vote(req)

Spec == Init /\ [][Next]_vars

----------------------------------------------------------------------------
(* The vote handler under concurrent requests: two request threads serve   *)
(* votes of browsers behind one address, with per-IP restriction.          *)

InitRace ==
    \E otu \in {0, 1} :
        InitWith([DefaultSettings EXCEPT !.voting_restriction = "ip"], GuardBlocks(otu, ""))

RaceRequests ==
    {Request(1, 0, 0, song_id, FALSE, "true", NoRating, b) :
        song_id \in SongIds, b \in {NoBlock, 1}}

NextRace ==
    \E th \in Threads :
        \/ \E req \in RaceRequests : VoteChecks(th, req)
        \/ VoteAddVote(th)

SpecRace == InitRace /\ [][NextRace]_vars

----------------------------------------------------------------------------
(* The block gate and the voting window: one browser, which may log in as  *)
(* an administrator and authenticate against the blocks' passwords, votes  *)
(* on song 1 while the clock runs.  Block 1 expires at time 1, block 2     *)
(* never; both are password-protected.                                     *)

GateBlocks ==
    [b \in BlockIds |->
        IF b = 1 THEN BlockRow(<<"hash", "abc123">>, Iso(1), 0, "")
        ELSE BlockRow(<<"hash", "xyz789">>, EmptyTs, 0, "")]

WindowStarts == {EmptyTs, BadTs, Iso(1), Iso(2)}
WindowEnds == {EmptyTs, BadTs, Iso(0), Iso(1)}

InitGate ==
    \E vs \in WindowStarts, ve \in WindowEnds :
        InitWith([DefaultSettings EXCEPT !.voting_start = vs, !.voting_end = ve],
                 GateBlocks)

GateRequests ==
    {Request(1, 0, 0, 1, FALSE, "true", NoRating, b) : b \in BlockIds \cup {NoBlock}}

Passwords == {"abc123", "wrong"}

NextGate ==
    \/ \E req \in GateRequests : Vote(req)
    \/ \E b \in BlockIds, pw \in Passwords : VoteBlockAuth(1, b, pw)
    \/ AdminLogin(1)
    \/ AdminLogout(1)
    \/ Tick

SpecGate == InitGate /\ [][NextGate]_vars

----------------------------------------------------------------------------
(* The payload checks: one browser, which may log in as an administrator,  *)
(* posts every kind of body for song 1 and for the unknown song 3.         *)

Ratings ==
    {NoRating, [t |-> "str", x2 |-> 0],
     IntRating(-1), IntRating(0), IntRating(1), IntRating(10), IntRating(11),
     [t |-> "float", x2 |-> 1], [t |-> "float", x2 |-> 10],
     [t |-> "float", x2 |-> 11], [t |-> "float", x2 |-> 21]}

Thumbs == {"null", "true", "false"}

PayloadRequests ==
    {Request(1, 0, 0, 1, FALSE, th, ra, NoBlock) : th \in Thumbs, ra \in Ratings}
    \cup {Request(1, 0, 0, 1, TRUE, "null", NoRating, NoBlock),
          Request(1, 0, 0, 3, FALSE, "true", IntRating(10), NoBlock)}

InitPayload == InitWith(DefaultSettings, NoBlocks)

NextPayload ==
    \/ \E req \in PayloadRequests : Vote(req)
    \/ AdminLogin(1)
    \/ AdminLogout(1)

SpecPayload == InitPayload /\ [][NextPayload]_vars

----------------------------------------------------------------------------
(* The administrator: one browser votes on two songs inside and outside    *)
(* block 1 under the modes 'ip' and 'cookie', logging in and out as an      *)
(* administrator in between.                                               *)

InitAdmin ==
    \E mode \in {"ip", "cookie"}, otu \in {0, 1} :
        InitWith([DefaultSettings EXCEPT !.voting_restriction = mode],
                 GuardBlocks(otu, ""))

AdminRequests ==
    {Request(1, 0, 0, song_id, FALSE, "true", NoRating, b) :
        song_id \in SongIds, b \in {NoBlock, 1}}

NextAdmin ==
    \/ \E req \in AdminRequests : Vote(req)
    \/ AdminLogin(1)
    \/ AdminLogout(1)

SpecAdmin == InitAdmin /\ [][NextAdmin]_vars

----------------------------------------------------------------------------
(* The admin users: the first admin comes from the setup page or from the  *)
(* environment at a start of the process; admins sign in, create admins,    *)
(* change roles and delete admins, two request threads serving the deletes. *)

InitAdmins == InitWith(DefaultSettings, NoBlocks)

NextAdmins ==
    \/ AdminSetup
    \/ InitDbEnvAdmin
    \/ \E a \in AdminIds : AdminSignIn(a)
    \/ \E s \in logins, role \in Roles : AdminCreateAdmin(s, role)
    \/ \E s \in logins, a \in AdminIds, role \in Roles : AdminUpdateRole(s, a, role)
    \/ \E th \in Threads, s \in logins, a \in AdminIds : AdminDeleteAdmin(th, s, a)
    \/ \E th \in Threads : DeleteAdminRow(th)

SpecAdmins == InitAdmins /\ [][NextAdmins]_vars

----------------------------------------------------------------------------
(* Password resets: the admins come from the setup page and from the        *)
(* environment; reset links are requested for them, opened and used while   *)
(* the clock runs.                                                          *)

Tokens == 1..MaxTokens

NextTokens ==
    \/ AdminSetup
    \/ InitDbEnvAdmin
    \/ \E a \in AdminIds : AdminForgotPassword(a)
    \/ \E token \in Tokens : AdminResetPasswordForm(token)
    \/ \E token \in Tokens : AdminResetPassword(token)
    \/ Tick

SpecTokens == InitAdmins /\ [][NextTokens]_vars

----------------------------------------------------------------------------
(* Behind a proxy: every request arrives from the connection address 1,     *)
(* with no forwarded header or with the first X-Forwarded-For entry 2 or 3, *)
(* under the mode 'ip'.                                                     *)

ForwardedFor == {0, 2, 3}

InitProxy == InitWith([DefaultSettings EXCEPT !.voting_restriction = "ip"], NoBlocks)

ProxyRequests ==
    {Request(1, 0, xff, song_id, FALSE, "true", NoRating, NoBlock) :
        xff \in ForwardedFor, song_id \in SongIds}

NextProxy == \E req \in ProxyRequests : Vote(req)

SpecProxy == InitProxy /\ [][NextProxy]_vars

----------------------------------------------------------------------------
(* The life of the data: one browser, which may log in as an               *)
(* administrator, votes on two songs inside and outside block 1, deletes    *)
(* block 1 and songs, clears the data and reads the results of the blocks.  *)
(* Block 1 holds song 1 or both songs, block 2 holds song 2.                *)

DataBlocks == [b \in BlockIds |-> BlockRow(NoHash, EmptyTs, 0, "")]

DataPayloads == {<<"true", NoRating>>, <<"false", IntRating(3)>>}

InitData ==
    \E in1 \in {{1}, SongIds} :
        InitFull(DefaultSettings, DataBlocks,
                 {<<1, song_id>> : song_id \in in1} \cup {<<2, 2>>}, <<>>)

DataRequests ==
    {Request(1, 0, 0, song_id, FALSE, pl[1], pl[2], b) :
        song_id \in SongIds, pl \in DataPayloads, b \in {NoBlock, 1}}

NextData ==
    \/ \E req \in DataRequests : Vote(req)
    \/ AdminLogin(1)
    \/ AdminLogout(1)
    \/ AdminDeleteBlock(1, 1)
    \/ \E song_id \in SongIds : AdminDeleteSong(1, song_id)
    \/ ClearData(1)
    \/ \E b \in BlockIds : AdminBlockResults(1, b)

SpecData == InitData /\ [][NextData]_vars

----------------------------------------------------------------------------
(* Aggregation: the database holds up to MaxRows votes on song 1, all      *)
(* outside the blocks or all in block 1, when the process starts.  One      *)
(* browser, which may log in as an administrator, reads the statistics and  *)
(* votes on both songs while the ledger is short.  The ledger is drawn      *)
(* with its votes in the order of ResultKinds; the aggregates do not        *)
(* depend on the order of the rows.                                         *)

ResultKinds ==
    << <<"true", IntRating(1)>>, <<"false", IntRating(1)>>, <<"null", IntRating(1)>>,
       <<"null", IntRating(2)>>, <<"null", IntRating(6)>>, <<"true", NoRating>>,
       <<"false", IntRating(10)>> >>

\* the ledger with one vote on song 1 of kind f[i] for every i, in block b
LedgerOf(f, b) ==
    [i \in DOMAIN f |-> add_vote(1, ResultKinds[f[i]][1], ResultKinds[f[i]][2], NoVoter, b)]

InitResults ==
    \E n \in 0..MaxRows, b \in {NoBlock, 1} :
        \E f \in [1..n -> 1..Len(ResultKinds)] :
            /\ \A i \in 1..(n - 1) : f[i] <= f[i + 1]
            /\ InitFull(DefaultSettings, DataBlocks, {<<1, 1>>, <<1, 2>>, <<2, 2>>},
                        LedgerOf(f, b))

ResultRequests ==
    {Request(1, 0, 0, song_id, FALSE, pl[1], pl[2], b) :
        song_id \in SongIds, pl \in DataPayloads, b \in {NoBlock, 1}}

NextResults ==
    \/ \E req \in ResultRequests : Vote(req)
    \/ \E song_id \in SongIds : GetSongStats(song_id)
    \/ GetResults(1)
    \/ AdminLogin(1)
    \/ \E b \in BlockIds : AdminBlockResults(1, b)

SpecResults == InitResults /\ [][NextResults]_vars

----------------------------------------------------------------------------
(* Properties of the vote handler.  resp holds the last request and its    *)
(* response, so a state predicate on resp speaks about the request that    *)
(* led to the state and an action formula on resp' about the request of    *)
(* the step.                                                               *)

\* the responses of the checks that come before the block gate
BeforeBlockGate ==
    {"rate_limited", "song_not_found", "no_json", "missing_signal", "bad_rating",
     "error500"}

\* the responses a request gets once it has reached the duplicate guard
AtGuard == {"ok", "dup_block", "dup_song"}

IsVote(r) == r.op = "vote"

HasPassword(b) == b \in DOMAIN vote_blocks /\ vote_blocks[b].password_hash # NoHash

\* now lies after the block's expires_at
PastExpiry(b, t) ==
    /\ b \in DOMAIN vote_blocks
    /\ vote_blocks[b].expires_at.k = "iso"
    /\ t > vote_blocks[b].expires_at.t

BeforeStart(t) == settings.voting_start.k = "iso" /\ t < settings.voting_start.t

AfterEnd(t) == settings.voting_end.k = "iso" /\ t > settings.voting_end.t

RowsOf(led, voter_id, block_id) ==
    {i \in 1..Len(led) : led[i].voter_id = voter_id /\ led[i].block_id = block_id}

\* C1 as stated: a non-admin vote in a password-protected block is accepted
\* only if the caller's session holds the access flag of that block.
C1_AsStated ==
    (IsVote(resp) /\ ~resp.admin /\ HasPassword(resp.req.block_id)
        /\ resp.outcome = "ok")
    => resp.req.block_id \in session[resp.req.client].block_access

\* C2: in a one_time_use block, a non-admin voter with a non-null identity
\* who already has a vote under the block is rejected on every song with
\* 'already voted in this block' and nothing is recorded, so the block never
\* holds two votes of one voter identity.
C2_OneVotePerBlock ==
    [][(IsVote(resp') /\ ~resp'.admin /\ resp'.voter_id # NoVoter
          /\ resp'.req.block_id \in DOMAIN vote_blocks
          /\ vote_blocks[resp'.req.block_id].one_time_use = 1)
       => /\ RowsOf(votes, resp'.voter_id, resp'.req.block_id) # {}
                => (resp'.outcome = "dup_block" /\ votes' = votes)
          /\ Cardinality(RowsOf(votes', resp'.voter_id, resp'.req.block_id)) <= 1]_vars

\* C2 witness: the voter is turned away from a song of the block that has
\* no vote at all
C2_Witness ==
    /\ IsVote(resp)
    /\ resp.outcome = "dup_block"
    /\ \A i \in 1..Len(votes) : votes[i].song_id # resp.req.song_id

\* a vote row that makes has_voted true for (song, voter, block)
PriorVote(led, song_id, voter_id, block_id) ==
    \E i \in 1..Len(led) :
        /\ led[i].song_id = song_id
        /\ led[i].voter_id = voter_id
        /\ block_id # NoBlock => led[i].block_id = block_id

\* the one-time-use rule applies to (voter, block)
BlockWide(led, voter_id, block_id) ==
    /\ block_id \in DOMAIN vote_blocks
    /\ vote_blocks[block_id].one_time_use = 1
    /\ RowsOf(led, voter_id, block_id) # {}

\* C3: under mode 'ip' (votes of a block with restriction 'none' aside), a
\* vote by the voter at address A on song S is accepted when A has no vote
\* on S yet (and the one-time-use rule does not apply), whatever other
\* voters did, and rejected as 'already voted' when A has one; the ledger
\* never holds two rows with the same song, non-null voter and block.
C3_NoDuplicateIp ==
    [][(IsVote(resp') /\ ~resp'.admin /\ settings.voting_restriction = "ip"
          /\ resp'.outcome \in AtGuard
          /\ (resp'.req.block_id # NoBlock
                => vote_blocks[resp'.req.block_id].voting_restriction # "none"))
       => LET A == <<"md5", remote_addr(resp'.req.client)>>
              S == resp'.req.song_id
              b == resp'.req.block_id
          IN /\ PriorVote(votes, S, A, b) => resp'.outcome \in {"dup_song", "dup_block"}
             /\ (~PriorVote(votes, S, A, b) /\ ~BlockWide(votes, A, b))
                    => (resp'.outcome = "ok" /\ votes' = Append(votes,
                            add_vote(S, resp'.req.thumbs_up, resp'.req.rating, A, b)))
             /\ \A i, j \in 1..Len(votes') :
                    (/\ votes'[i].voter_id # NoVoter
                     /\ votes'[i].song_id = votes'[j].song_id
                     /\ votes'[i].voter_id = votes'[j].voter_id
                     /\ votes'[i].block_id = votes'[j].block_id) => i = j]_vars

\* C3 witness: A is rejected on S as a duplicate while the ledger holds a
\* vote on S of A and one of another voter
C3_Witness ==
    /\ IsVote(resp)
    /\ settings.voting_restriction = "ip"
    /\ resp.outcome = "dup_song"
    /\ \E i, j \in 1..Len(votes) :
          /\ votes[i].song_id = resp.req.song_id
          /\ votes[j].song_id = resp.req.song_id
          /\ votes[i].voter_id = resp.voter_id
          /\ votes[j].voter_id \notin {resp.voter_id, NoVoter}

\* C5: a vote in a block whose expires_at lies in the past is rejected as
\* 'expired' (unless a check before the block gate has rejected it already)
\* and records nothing, authenticated or not; a vote in a block without
\* expires_at, or with now <= expires_at, is never rejected as expired.
C5_ExpiredBlockRejects ==
    [][(IsVote(resp') /\ resp'.req.block_id \in DOMAIN vote_blocks)
       => IF PastExpiry(resp'.req.block_id, now)
          THEN /\ resp'.outcome \in {"expired"} \cup BeforeBlockGate
               /\ votes' = votes
          ELSE resp'.outcome # "expired"]_vars

\* C5 witness: a caller who holds the block's access flag is rejected as expired
C5_Witness ==
    /\ IsVote(resp)
    /\ resp.outcome = "expired"
    /\ resp.req.block_id \in session[resp.req.client].block_access

\* C6 as stated: a vote with a rating is accepted only if the rating is a
\* whole number in 1..10, and every rating in the ledger is an integer in
\* 1..10.
C6_AsStated ==
    /\ (IsVote(resp) /\ resp.req.rating.t # "none" /\ resp.outcome = "ok")
          => (resp.req.rating.t \in {"int", "float"}
              /\ resp.req.rating.x2 \in {2 * n : n \in 1..10})
    /\ \A i \in 1..Len(votes) :
          votes[i].rating.t # "none"
             => (votes[i].rating.t = "int" /\ votes[i].rating.x2 \in {2 * n : n \in 1..10})

\* C7: a body without thumbs_up and without rating is rejected with a 400
\* (when the limiter admits the request and the song exists) and records
\* nothing; every row of the ledger carries a thumbs value or a rating.
C7_SignalRequired ==
    [][(IsVote(resp') /\ resp'.req.thumbs_up = "null" /\ resp'.req.rating.t = "none")
       => /\ resp'.outcome \in {"no_json", "missing_signal", "rate_limited", "song_not_found"}
          /\ votes' = votes
          /\ \A i \in 1..Len(votes') :
                votes'[i].thumbs_up # "null" \/ votes'[i].rating.t # "none"]_vars

\* C7 witness: a body that names neither signal is rejected while the ledger
\* holds a vote
C7_Witness ==
    /\ IsVote(resp)
    /\ resp.outcome = "missing_signal"
    /\ votes # <<>>

\* the voter identity that restriction mode m asks for
IdentityFor(m, c) ==
    IF m = "ip" THEN <<"md5", remote_addr(c)>> ELSE session[c].voter_id

\* C8 as stated: a non-admin vote in a block with its own mode 'ip' or
\* 'cookie' carries the identity of the block's mode, whatever the global
\* setting is.
C8_AsStated ==
    (IsVote(resp) /\ ~resp.admin /\ resp.outcome \in AtGuard
        /\ resp.req.block_id \in DOMAIN vote_blocks
        /\ vote_blocks[resp.req.block_id].voting_restriction \in {"ip", "cookie"})
    => /\ resp.voter_id # NoVoter
       /\ resp.voter_id =
             IdentityFor(vote_blocks[resp.req.block_id].voting_restriction, resp.req.client)

\* C9: a non-admin vote without block that reaches the window check is
\* rejected 'not started yet' iff voting_start parses and now < start, and
\* otherwise 'ended' iff voting_end parses and now > end; a vote of an
\* admin or in a block is never rejected by the window.
C9_GlobalWindow ==
    IsVote(resp) =>
        IF ~resp.admin /\ resp.req.block_id = NoBlock
        THEN resp.outcome \notin BeforeBlockGate
                => /\ (resp.outcome = "not_started") <=> BeforeStart(now)
                   /\ (resp.outcome = "ended") <=> (AfterEnd(now) /\ ~BeforeStart(now))
        ELSE resp.outcome \notin {"not_started", "ended"}

\* C9 witness: with an unparseable voting_start, a vote at the very instant
\* of voting_end is accepted
C9_Witness ==
    /\ IsVote(resp)
    /\ ~resp.admin
    /\ resp.req.block_id = NoBlock
    /\ settings.voting_start = BadTs
    /\ settings.voting_end = Iso(now)
    /\ resp.outcome = "ok"

\* C10 as stated: an admin's vote is never rejected by a time check, neither
\* the global window nor the expiry of its block.
C10_AsStated ==
    (IsVote(resp) /\ resp.admin) => resp.outcome \notin {"not_started", "ended", "expired"}

\* C10 amended: an admin's vote is never rejected by the global voting
\* window; the expiry of the block it references rejects it like any vote.
C10_AdminBypassesWindow ==
    (IsVote(resp) /\ resp.admin)
    => /\ resp.outcome \notin {"not_started", "ended"}
       /\ PastExpiry(resp.req.block_id, now) => resp.outcome \in {"expired"} \cup BeforeBlockGate
       /\ resp.outcome = "expired" => PastExpiry(resp.req.block_id, now)

\* C10 witness: an admin's vote without block is accepted outside the window
C10_Witness ==
    /\ IsVote(resp)
    /\ resp.admin
    /\ resp.req.block_id = NoBlock
    /\ BeforeStart(now) \/ AfterEnd(now)
    /\ resp.outcome = "ok"

\* C11: a vote from an administrative session is never answered with a 429
\* nor with 'already voted'; it leaves the limiter as it was, and when it is
\* accepted its row carries a null voter identity.
C11_AdminBypassesGuards ==
    [][(IsVote(resp') /\ resp'.admin)
       => /\ resp'.outcome \notin {"rate_limited", "dup_song", "dup_block"}
          /\ vote_limiter' = vote_limiter
          /\ resp'.outcome = "ok"
                => votes' = Append(votes, add_vote(resp'.req.song_id, resp'.req.thumbs_up,
                                                   resp'.req.rating, NoVoter,
                                                   resp'.req.block_id))]_vars

\* C11 witness: an admin's vote is accepted while the limiter holds max_votes
\* timestamps of the caller's address inside the window and the ledger holds
\* an earlier vote on the same song in the same block
C11_Witness ==
    /\ IsVote(resp)
    /\ resp.admin
    /\ resp.outcome = "ok"
    /\ OverLimit(vote_limiter, vote_limiter.votes, resp.ip)
    /\ votes[Len(votes)].voter_id = NoVoter
    /\ \E i \in 1..(Len(votes) - 1) :
          /\ votes[i].song_id = resp.req.song_id
          /\ votes[i].block_id = resp.req.block_id
          /\ votes[i].voter_id # NoVoter

\* a body that is empty, names neither signal, or carries a number outside
\* [1,10] as its rating
Malformed(req) ==
    \/ req.empty
    \/ req.thumbs_up = "null" /\ req.rating.t = "none"
    \/ req.rating.t \in {"int", "float"} /\ req.rating.x2 \notin 2..20

MalformedOutcomes == {"no_json", "missing_signal", "bad_rating"}

\* C13 as stated: a vote rejected for a malformed payload leaves the ledger,
\* the limiter's timestamp history and the session as they were.
C13_AsStated ==
    [][(IsVote(resp') /\ resp'.outcome \in MalformedOutcomes)
       => /\ votes' = votes
          /\ vote_limiter' = vote_limiter
          /\ session' = session]_vars

\* C13 amended: a vote with a malformed payload is rejected (by the payload
\* checks, or before them by the limiter or the song lookup) and leaves the
\* ledger and the session as they were; the limiter, which runs first, has
\* by then appended the time of the request to the history of the caller's
\* address, unless the caller is an administrator.
C13_LedgerAndSessionUntouched ==
    [][(IsVote(resp') /\ Malformed(resp'.req))
       => /\ resp'.outcome \in MalformedOutcomes \cup {"rate_limited", "song_not_found"}
          /\ votes' = votes
          /\ session' = session
          /\ resp'.admin => vote_limiter' = vote_limiter
          /\ (~resp'.admin /\ resp'.outcome # "rate_limited")
                => Stamps(vote_limiter', resp'.ip)
                      = Append(SelectSeq(Stamps(vote_limiter, resp'.ip),
                                         LAMBDA x : now - x
                                             < vote_limiter.window_secs * TicksPerSec),
                               now)]_vars

\* C13 witness: a rating out of range is rejected while the ledger holds a
\* vote, and the rejected request has used up the caller's last admission
C13_Witness ==
    /\ IsVote(resp)
    /\ ~resp.admin
    /\ resp.outcome = "bad_rating"
    /\ votes # <<>>
    /\ Len(Stamps(vote_limiter, resp.ip)) = vote_limiter.max_votes
    /\ Stamps(vote_limiter, resp.ip)[vote_limiter.max_votes] = now

----------------------------------------------------------------------------
(* Properties of the data's life *)

\* number of vote rows of a song
VoteCountOf(led, song_id) == Cardinality({i \in 1..Len(led) : led[i].song_id = song_id})

\* C14 as stated: the deletion of a vote block removes the block and all of
\* its song associations, deletes no vote row and clears the block reference
\* of every vote cast in the block, so every song keeps its number of votes.
C14_AsStated ==
    [][(resp'.op = "delete_block" /\ resp'.outcome = "ok")
       => LET b == resp'.req.block_id
          IN /\ b \notin DOMAIN vote_blocks'
             /\ \A p \in vote_block_songs' : p[1] # b
             /\ Len(votes') = Len(votes)
             /\ \A i \in 1..Len(votes) :
                   votes'[i] = IF votes[i].block_id = b
                               THEN [votes[i] EXCEPT !.block_id = NoBlock]
                               ELSE votes[i]
             /\ \A song_id \in SongIds :
                   VoteCountOf(votes', song_id) = VoteCountOf(votes, song_id)]_vars

\* ledger led with the rows of the songs in gone left out
WithoutSongs(led, gone) == SelectSeq(led, LAMBDA v : v.song_id \notin gone)

\* C15: an accepted vote appends exactly one row and a rejected vote none;
\* any other request leaves every row as it is, except that the rows of a
\* song go when the request deletes that song.
C15_AppendOnly ==
    [][IF IsVote(resp')
       THEN /\ songs' = songs
            /\ IF resp'.outcome = "ok"
               THEN Len(votes') = Len(votes) + 1 /\ SubSeq(votes', 1, Len(votes)) = votes
               ELSE votes' = votes
       ELSE /\ votes' = WithoutSongs(votes, songs \ songs')
            /\ resp'.op \notin {"delete_song", "clear"} => songs' = songs]_vars

\* C15 witness: the deletion of a song has taken its votes and left a vote
\* of the other song
C15_Witness ==
    /\ resp.op = "delete_song"
    /\ resp.outcome = "ok"
    /\ votes # <<>>
    /\ \A i \in 1..Len(votes) : votes[i].song_id # resp.req.song_id

----------------------------------------------------------------------------
(* Properties of the aggregation.  The expected values are computed from   *)
(* the ledger by counting, and the spread of the ratings from the pairwise  *)
(* differences: n * sum(x * x) - sum(x) ** 2 = sum over i < j of            *)
(* (x[i] - x[j]) ** 2.                                                      *)

\* the rows a result entry of the last read request aggregates
RowsBehind(r, song_id) ==
    {i \in 1..Len(votes) :
        /\ votes[i].song_id = song_id
        /\ r.op = "block_results" => votes[i].block_id = r.req.block_id}

RatedOf(rows) == {i \in rows : votes[i].rating.t # "none"}

ThumbsOf(rows, th) == Cardinality({i \in rows : votes[i].thumbs_up = th})

\* sum over the pairs of rated rows of the squared difference of 2 * rating
PairSpread(rows) ==
    LET pairs == {p \in RatedOf(rows) \X RatedOf(rows) : p[1] < p[2]}
        Sq(p) == (votes[p[1]].rating.x2 - votes[p[2]].rating.x2)
                    * (votes[p[1]].rating.x2 - votes[p[2]].rating.x2)
        ordered == OrderedIds({p[1] * (Len(votes) + 1) + p[2] : p \in pairs})
    IN SeqSum([k \in 1..Len(ordered) |->
                 Sq(<<ordered[k] \div (Len(votes) + 1), ordered[k] % (Len(votes) + 1)>>)])

IsResults(r) == r.op \in {"results", "block_results"} /\ r.outcome = "ok"

\* C16: get_song_stats changes no state, returns what the preceding call for
\* the same song returned when no request came in between, and its
\* vote_count is the number of ledger rows of the song.
C16_StatsPure ==
    [][resp'.op = "stats"
       => /\ UNCHANGED <<now, settings, songs, vote_blocks, threads, admins, next_admin_id, logins, password_reset_tokens, vote_block_songs, votes,
                         session, next_uuid, vote_limiter, admitted>>
          /\ resp'.result[1].vote_count = VoteCountOf(votes, resp'.req.song_id)
          /\ (resp.op = "stats" /\ resp.req.song_id = resp'.req.song_id)
                => resp'.result = resp.result]_vars

\* C16 witness: the statistics of a song with a rated vote, while the ledger
\* also holds a vote on the other song
C16_Witness ==
    /\ resp.op = "stats"
    /\ resp.result[1].vote_count >= 1
    /\ resp.result[1].vote_count < Len(votes)
    /\ resp.result[1].avg_rating # Null

\* C17 as stated: in get_all_results and get_block_results, rating_stdev and
\* agreement_score are null for a song with fewer than two rated votes and
\* computed for a song with two or more.
C17_AsStated ==
    IsResults(resp) =>
        \A k \in 1..Len(resp.result) :
            LET e == resp.result[k]
                rated == Cardinality(RatedOf(RowsBehind(resp, e.id)))
            IN IF rated >= 2
               THEN e.rating_stdev # Null /\ e.agreement_score # Null
               ELSE e.rating_stdev = Null /\ e.agreement_score = Null

\* C18 as stated: is_controversial is true iff the reported agreement_score
\* is below 50 and the reported thumbs_up_pct lies in [30,70]; two or more
\* rated votes with one and the same rating give rating_stdev 0,
\* agreement_score 100 and is_controversial false.
C18_AsStated ==
    IsResults(resp) =>
        \A k \in 1..Len(resp.result) :
            LET e == resp.result[k]
                rows == RowsBehind(resp, e.id)
            IN /\ e.is_controversial <=>
                     /\ e.agreement_score # Null /\ e.agreement_score < 50
                     /\ e.thumbs_up_pct # Null
                     /\ 300 <= e.thumbs_up_pct /\ e.thumbs_up_pct <= 700
               /\ (Cardinality(RatedOf(rows)) >= 2 /\ PairSpread(rows) = 0)
                     => /\ e.rating_stdev = 0
                        /\ e.agreement_score = 100
                        /\ ~e.is_controversial

\* C18 amended: is_controversial is true iff dispersion is computed, the
\* agreement score before rounding is below 50 (the standard deviation of
\* the ratings exceeds 2.25) and the thumbs-up share before rounding lies in
\* [30,70]; two or more rated votes with one and the same rating give
\* rating_stdev 0, agreement_score 100 and is_controversial false.
C18_ControversialUnrounded ==
    IsResults(resp) =>
        \A k \in 1..Len(resp.result) :
            LET e == resp.result[k]
                rows == RowsBehind(resp, e.id)
                n == Cardinality(RatedOf(rows))
                up == ThumbsOf(rows, "true")
                down == ThumbsOf(rows, "false")
            IN /\ e.is_controversial <=>
                     /\ e.agreement_score # Null
                     /\ 4 * PairSpread(rows) > 81 * n * n
                     /\ up + down > 0
                     /\ 30 * (up + down) <= 100 * up
                     /\ 100 * up <= 70 * (up + down)
               /\ (n >= 2 /\ PairSpread(rows) = 0)
                     => /\ e.rating_stdev = 0
                        /\ e.agreement_score = 100
                        /\ ~e.is_controversial

\* C18 witness: a song is reported with agreement_score 50 and flagged as
\* controversial
C18_Witness ==
    /\ IsResults(resp)
    /\ \E k \in 1..Len(resp.result) :
          /\ resp.result[k].is_controversial
          /\ resp.result[k].agreement_score = 50

\* C19: get_block_results(b) lists every song assigned to block b once and
\* no other song; an entry counts the votes on its song whose block
\* reference is b and no others, and a song without such a vote is listed
\* with vote_count 0 and null statistics.
C19_BlockResults ==
    (resp.op = "block_results" /\ resp.outcome = "ok") =>
        LET b == resp.req.block_id
            assigned == {song_id \in songs : <<b, song_id>> \in vote_block_songs}
        IN /\ {resp.result[k].id : k \in 1..Len(resp.result)} = assigned
           /\ Len(resp.result) = Cardinality(assigned)
           /\ \A k \in 1..Len(resp.result) :
                 LET e == resp.result[k]
                     rows == {i \in 1..Len(votes) : /\ votes[i].song_id = e.id
                                                    /\ votes[i].block_id = b}
                 IN /\ e.vote_count = Cardinality(rows)
                    /\ (e.avg_rating = Null) <=> (RatedOf(rows) = {})
                    /\ (e.thumbs_up_pct = Null)
                          <=> (ThumbsOf(rows, "true") + ThumbsOf(rows, "false") = 0)
                    /\ rows = {} => /\ e.rating_stdev = Null
                                    /\ e.agreement_score = Null
                                    /\ ~e.is_controversial

\* C19 witness: the results of a block list a song with a vote in the block
\* and a song whose only votes lie outside the block, the latter with
\* vote_count 0
C19_Witness ==
    /\ resp.op = "block_results"
    /\ resp.outcome = "ok"
    /\ \E j, k \in 1..Len(resp.result) :
          /\ resp.result[j].vote_count > 0
          /\ resp.result[k].vote_count = 0
          /\ VoteCountOf(votes, resp.result[k].id) > 0

----------------------------------------------------------------------------
(* Properties of the rate limiter *)

\* number of admitted calls in the window that no eviction has wiped
LiveCount(h) == Cardinality({i \in 1..Len(h) : h[i].live})

\* C4 as stated: a call from an IP is admitted iff fewer than max_votes
\* calls from it were admitted within the preceding window_secs, and no IP
\* is admitted more than max_votes times within one window, eviction or not.
C4_AsStated ==
    [][resp'.op = "check" =>
         /\ (resp'.outcome = "ok") <=>
                (Len(admitted[resp'.ip]) < vote_limiter.max_votes)
         /\ \A x \in IPs : Len(admitted'[x]) <= vote_limiter.max_votes]_vars

\* C4 amended: the limiter counts only the admitted calls made since it last
\* evicted the IP.  A call from an IP is admitted iff fewer than max_votes
\* calls from it were admitted within the preceding window_secs and after the
\* last eviction of that IP, and no IP is admitted more than max_votes times
\* within one window without an eviction of that IP in between.
C4_SinceEviction ==
    [][resp'.op = "check" =>
         /\ IF resp'.outcome = "ok"
            THEN LiveCount(admitted'[resp'.ip]) <= vote_limiter.max_votes
            ELSE LiveCount(admitted'[resp'.ip]) >= vote_limiter.max_votes
         /\ \A x \in IPs : LiveCount(admitted'[x]) <= vote_limiter.max_votes]_vars

\* the times of the admitted calls of ip
AdmittedTimes(ip) == [i \in 1..Len(admitted[ip]) |-> admitted[ip][i].t]

\* C20 as stated: however the check calls of concurrent request threads for
\* one IP interleave, the IP is admitted at most max_votes times within a
\* window, and no recorded timestamp is lost: once all calls have returned,
\* the limiter holds the timestamp of every admitted call.
C20_AsStated ==
    \A ip \in IPs :
        /\ Len(admitted[ip]) <= vote_limiter.max_votes
        /\ (\A th \in Threads : threads[th].pc = "idle")
              => Stamps(vote_limiter, ip) = AdmittedTimes(ip)

\* C21 as stated: however two concurrent vote requests interleave, the ledger
\* never holds two rows with the same song, the same non-null voter identity
\* and the same block.
C21_AsStated ==
    \A i, j \in 1..Len(votes) :
        /\ i < j
        /\ votes[i].voter_id # NoVoter
        /\ votes[i].voter_id = votes[j].voter_id
        /\ votes[i].song_id = votes[j].song_id
        => votes[i].block_id # votes[j].block_id

\* C22 as stated: the one browser session of the run gets its voter token
\* once, on the first vote that needs it, and every later vote of the session
\* carries that token, whatever votes, admin logins and admin logouts come in
\* between; under 'none' and 'ip' nothing is written to the session.
C22_AsStated ==
    IF settings.voting_restriction = "cookie"
    THEN /\ next_uuid <= 1
         /\ \A i, j \in 1..Len(votes) :
               votes[i].voter_id # NoVoter /\ votes[j].voter_id # NoVoter
                   => votes[i].voter_id = votes[j].voter_id
    ELSE \A c \in Clients : session[c].voter_id = NoVoter

\* a non-admin vote in a block whose voting_restriction is blank that got
\* as far as the duplicate guard
InBlankBlock(r) ==
    /\ IsVote(r) /\ ~r.admin /\ r.outcome \in AtGuard
    /\ r.req.block_id \in DOMAIN vote_blocks
    /\ vote_blocks[r.req.block_id].voting_restriction = ""

\* C23 as stated: a non-admin vote in a block whose voting_restriction is
\* blank carries no voter identity and is never rejected as a duplicate,
\* whatever the global setting is.
C23_AsStated ==
    InBlankBlock(resp) => (resp.voter_id = NoVoter /\ resp.outcome = "ok")

\* C23 amended: a non-admin vote in a block whose voting_restriction is blank
\* is handled under the global voting_restriction: under 'none' it carries no
\* identity and is accepted; under 'ip' it carries the hash of the address and
\* is rejected when that voter already has a vote on the song in the block;
\* under 'cookie' it carries the session's token.
C23_BlankFallsBackToGlobal ==
    [][InBlankBlock(resp') =>
         LET c == resp'.req.client
             A == <<"md5", remote_addr(c)>>
             S == resp'.req.song_id
             b == resp'.req.block_id
         IN /\ settings.voting_restriction = "none"
                  => (resp'.voter_id = NoVoter /\ resp'.outcome = "ok")
            /\ settings.voting_restriction = "ip"
                  => /\ resp'.voter_id = A
                     /\ PriorVote(votes, S, A, b)
                           => resp'.outcome \in {"dup_song", "dup_block"}
            /\ settings.voting_restriction = "cookie"
                  => /\ resp'.voter_id # NoVoter
                     /\ resp'.voter_id = session'[c].voter_id]_vars

\* C23 witness: under global 'ip' a vote in a block with blank restriction is
\* rejected as a duplicate on its song
C23_Witness ==
    /\ InBlankBlock(resp)
    /\ settings.voting_restriction = "ip"
    /\ resp.voter_id = <<"md5", remote_addr(resp.req.client)>>
    /\ resp.outcome = "dup_song"

\* the IPs the limiter tracks
Tracked(L) == {L.votes[i].ip : i \in 1..Len(L.votes)}

\* a quarter of max_ips, rounded down
Quarter(L) == CHOOSE k \in 0..L.max_ips : 4 * k <= L.max_ips /\ L.max_ips < 4 * (k + 1)

\* C24: the limiter never tracks more than max_ips + 1 IPs.  A check call
\* that finds at most max_ips tracked IPs drops none; one that finds more
\* drops a quarter of max_ips of them (the caller, if dropped, is tracked
\* again at once), and every dropped IP has an oldest timestamp no later than
\* the oldest timestamp of every IP that stays.
C24_BoundedTracking ==
    [][resp'.op = "check" =>
         LET before == Tracked(vote_limiter)
             after == Tracked(vote_limiter')
             gone == before \ after
         IN /\ Cardinality(after) <= vote_limiter.max_ips + 1
            /\ resp'.ip \in after
            /\ Cardinality(before) <= vote_limiter.max_ips => gone = {}
            /\ Cardinality(before) > vote_limiter.max_ips
                  => /\ Cardinality(gone) <= Quarter(vote_limiter)
                     /\ Cardinality(gone) >= Quarter(vote_limiter) - 1
                     /\ resp'.ip \notin before
                           => Cardinality(gone) = Quarter(vote_limiter)
                     /\ Cardinality(after) <= vote_limiter.max_ips
                                                 - Quarter(vote_limiter) + 2
            /\ \A x \in gone, y \in (before \cap after) \ {resp'.ip} :
                  MinOf(Stamps(vote_limiter, x)) <= MinOf(Stamps(vote_limiter, y))]_vars

\* C24 witness: the address beyond max_ips + 1 has called, an IP was dropped
\* for it, and the limiter tracks max_ips + 1 IPs
C24_Witness ==
    /\ resp.op = "check"
    /\ resp.ip = vote_limiter.max_ips + 2
    /\ \E x \in IPs : \E i \in 1..Len(admitted[x]) : ~admitted[x][i].live
    /\ Cardinality(Tracked(vote_limiter)) = vote_limiter.max_ips + 1

\* C25 as stated: in mode 'ip' the voter identity of a vote is the hash of
\* the resolved client IP, the first forwarded-for entry when the header is
\* present and the connection address otherwise, which is the IP the rate
\* limiter keys on.
C25_AsStated ==
    (IsVote(resp) /\ ~resp.admin /\ resp.outcome \in AtGuard
        /\ settings.voting_restriction = "ip")
    => /\ resp.ip = ClientIp(resp.req)
       /\ resp.voter_id = <<"md5", ClientIp(resp.req)>>

\* C26 as stated: once the admins table holds a row it never becomes empty,
\* also when the steps of two delete requests interleave, and a refused
\* delete leaves the table unchanged.
C26_AsStated ==
    [][/\ admin_count >= 1 => Cardinality(DOMAIN admins') >= 1
       /\ (resp'.op = "delete_admin" /\ resp'.outcome # "ok") => admins' = admins]_vars

\* the admins with role 'owner' in table t
Owners(t) == {a \in DOMAIN t : t[a].role = "owner"}

\* C29 as stated: from a state with an admin of role 'owner', no admin
\* creation, role update or admin deletion leads to a state without one.
C29_AsStated ==
    [][Owners(admins) # {} => Owners(admins') # {}]_vars

\* C27 as stated: a vote that is recorded with a block reference is for a
\* song assigned to that block when the vote is cast; a vote request naming a
\* block and a song outside it is rejected.
C27_AsStated ==
    (IsVote(resp) /\ resp.outcome = "ok" /\ resp.req.block_id # NoBlock)
    => <<resp.req.block_id, resp.req.song_id>> \in vote_block_songs

\* C28 as stated: a rejected check call adds no timestamp to the history of
\* its IP, and the call that the IP makes retry_after seconds after the
\* rejection, with no call of it in between, is admitted.
C28_AsStated ==
    [][(resp'.op = "check" /\ resp'.outcome = "rate_limited") =>
         /\ Len(Stamps(vote_limiter', resp'.ip)) <= Len(Stamps(vote_limiter, resp'.ip))
         /\ check(vote_limiter', resp'.ip,
                  now + resp'.retry_after * TicksPerSec).allowed]_vars

\* the token a reset request carried was accepted by validate_reset_token
Accepted(r) == r.op \in {"reset_form", "reset"} /\ r.outcome # "invalid"

\* token is the latest row of its admin
MostRecent(rows, token) ==
    \A j \in 1..Len(rows) : rows[j].admin_id = rows[token].admin_id => j <= token

\* C30: a new token expires one token life after its creation; a token is
\* accepted only if it is the most recently created token of its admin, is
\* unused and has not passed its expiry; a successful reset marks its token
\* used, a used token is never unused again, so a token used for a reset is
\* never accepted again; no admin has two unused tokens.
C30_SingleUseTokens ==
    [][LET rows == password_reset_tokens
           rows2 == password_reset_tokens'
       IN /\ Len(rows2) >= Len(rows)
          /\ \A i \in 1..Len(rows) :
                /\ rows2[i].admin_id = rows[i].admin_id
                /\ rows2[i].expires_at = rows[i].expires_at
                /\ rows[i].used = 1 => rows2[i].used = 1
          /\ \A i \in (Len(rows) + 1)..Len(rows2) :
                rows2[i].expires_at = now + ScaledTokenLife /\ rows2[i].used = 0
          /\ Accepted(resp') =>
                LET token == resp'.result[1]
                IN /\ token \in 1..Len(rows)
                   /\ MostRecent(rows, token)
                   /\ rows[token].used = 0
                   /\ now <= rows[token].expires_at
                   /\ resp'.outcome = "ok" => rows2[token].used = 1
          /\ \A i, j \in 1..Len(rows2) :
                (rows2[i].admin_id = rows2[j].admin_id
                    /\ rows2[i].used = 0 /\ rows2[j].used = 0) => i = j]_vars

\* C30 witness: a token that is the latest of its admin and has not expired
\* is refused, having been used for a reset
C30_Witness ==
    /\ resp.op \in {"reset_form", "reset"}
    /\ resp.outcome = "invalid"
    /\ resp.result[1] \in 1..Len(password_reset_tokens)
    /\ MostRecent(password_reset_tokens, resp.result[1])
    /\ password_reset_tokens[resp.result[1]].used = 1
    /\ now <= password_reset_tokens[resp.result[1]].expires_at
    /\ password_reset_tokens[resp.result[1]].admin_id \in DOMAIN admins

\* C4 witness: an IP that was evicted inside the window has been admitted
\* max_votes times again and its next call is rejected
C4_Witness ==
    /\ resp.op = "check"
    /\ resp.outcome = "rate_limited"
    /\ \E i \in 1..Len(admitted[resp.ip]) : ~admitted[resp.ip][i].live
    /\ LiveCount(admitted[resp.ip]) = vote_limiter.max_votes

\* the admitted calls of ip that the limiter still holds
LiveCalls(h) == SelectSeq(h, LAMBDA a : a.live)

\* whole seconds in a number of ticks between 0 and the window
WholeSecs(L, ticks) ==
    CHOOSE n \in 0..L.window_secs :
        n * TicksPerSec <= ticks /\ ticks < (n + 1) * TicksPerSec

\* C12: on a rejection, retry_after is window_secs minus the time elapsed
\* since the oldest timestamp of the IP inside the window, truncated to whole
\* seconds and floored at 1, so 1 <= retry_after <= window_secs; on an
\* admission retry_after is 0.
C12_RetryAfter ==
    resp.op = "check" =>
        IF resp.outcome = "rate_limited"
        THEN LET oldest == LiveCalls(admitted[resp.ip])[1].t
                 left == vote_limiter.window_secs * TicksPerSec - (now - oldest)
             IN /\ LiveCalls(admitted[resp.ip]) # <<>>
                /\ resp.retry_after = Max(1, WholeSecs(vote_limiter, left))
                /\ 1 <= resp.retry_after
                /\ resp.retry_after <= vote_limiter.window_secs
        ELSE resp.retry_after = 0

\* C12 witness: a call is rejected when less than one second of the window
\* of the oldest timestamp is left, and told to retry after 1 second
C12_Witness ==
    /\ resp.op = "check"
    /\ resp.outcome = "rate_limited"
    /\ LiveCalls(admitted[resp.ip]) # <<>>
    /\ vote_limiter.window_secs * TicksPerSec
           - (now - LiveCalls(admitted[resp.ip])[1].t) < TicksPerSec
    /\ resp.retry_after = 1

====
